---- MODULE Spec2Model ----
(***************************************************************************)
(* Verification model of the lightspeed operator.                          *)
(*                                                                         *)
(*  - RegistryProxy credential cache (getDockerCreds, double-checked       *)
(*    locking over credsMu), modelled one lock operation / field access    *)
(*    per step:                                              SpecCreds     *)
(*  - RegistryProxy.ServeHTTP and getTokenForRepo, one step per blocking   *)
(*    call:                                                  SpecProxy     *)
(*  - Pruner.pruneRepository over every tag set of a small tag universe:   *)
(*                                                           SpecRetention *)
(*  - Pruner.Prune cycles over several repositories:         SpecPrune     *)
(*  - CloudflareClient.EnsureCNAME, one step per HTTP call: SpecDns,       *)
(*    SpecDnsRace; the scans of DNSSyncWorker:               SpecDnsScan   *)
(*  - SitesHandler, one step per call to the platform:       SpecSites     *)
(*  - main of the operator with the goroutines it starts:    SpecMain      *)
(*  - the deployment polls of the deploy command:  SpecWait, SpecWaitLive  *)
(***************************************************************************)
EXTENDS Integers, Sequences, FiniteSets, TLC

(***************************************************************************)
(* Bounds of the model.                                                    *)
(***************************************************************************)
NumCallers == 2      \* goroutines calling getDockerCreds
NumHandlers == 2     \* goroutines serving proxied requests
MaxRequests == 2     \* proxied requests received in all
MaxCalls == 3        \* calls of getDockerCreds made in all
MaxNow == 45         \* last clock value (minutes)
TickMinutes == 15    \* clock granularity (minutes)
MaxRepos == 2        \* repositories of the registry
MaxCycles == 2       \* Prune cycles
NumDnsCallers == 2   \* goroutines calling EnsureCNAME
MaxDnsCalls == 2     \* calls of EnsureCNAME made in all
MaxRedirects == 1    \* redirects followed for one upstream request
MaxScans == 2        \* scans of DNSSyncWorker
MaxTicks == 3        \* ticks of the daily ticker of the pruner
MaxBody == 3         \* bytes of an upstream response body

(***************************************************************************)
(* Program constants.                                                      *)
(***************************************************************************)
CredsTTLMinutes == 30
TickerSeconds == 3             \* the ticker of the deployment polls
DeployTimeoutSeconds == 600    \* the timeout of waitForDeployment
RedeployTimeoutSeconds == 300  \* the timeout of waitForRedeployment
ActiveGraceSeconds == 30       \* ACTIVE for longer counts as up to date

VARIABLES
    \* ---- RegistryProxy credential cache
    now,          \* wall clock, in minutes: what time.Now() returns
    dockerCreds,  \* p.dockerCreds; 0 is the empty string, k > 0 the k-th fetched secret
    credsExpiry,  \* p.credsExpiry
    rwReaders,    \* goroutines holding p.credsMu.RLock
    rwWriter,     \* goroutine holding p.credsMu.Lock, 0 when free
    pc,           \* position of each goroutine inside getDockerCreds
    creds,        \* the local variable creds / the value being returned
    tnow,         \* the last time.Now() the call evaluated
    obs,          \* the pair <<dockerCreds, credsExpiry>> the call last read
    how,          \* how the current/last call was answered
    ret,          \* result of the last completed call: [creds, err]
    calls,        \* completed calls per goroutine
    started,      \* calls begun, over all goroutines
    atCall,       \* what the cache and the fetch counter were when the call began
    fetchCount,   \* executions of fetchDockerCreds so far
    fetchFails,   \* executions of fetchDockerCreds that returned an error
    committed     \* the pairs the cache held between refreshes

credVars == <<now, dockerCreds, credsExpiry, rwReaders, rwWriter, pc, creds,
              tnow, obs, how, ret, calls, started, atCall, fetchCount, fetchFails,
              committed>>

    \* ---- Pruner and the registry it prunes
VARIABLES
    registry,        \* the tags (TagInfo) of each repository of the registry
    exists,          \* the repositories the registry holds
    ppc,             \* position of the pruner inside Prune / pruneRepository
    cycles,          \* Prune cycles started
    repos,           \* Prune: repos, as listRepositories returned them
    ri,              \* Prune: index of the repository being pruned
    totalDeleted,    \* Prune: totalDeleted
    tags,            \* pruneRepository: tags, as listTags returned them
    keepTags,        \* pruneRepository: keepTags (its keys)
    tagsToDelete,    \* pruneRepository: tagsToDelete
    di,              \* pruneRepository: index into tagsToDelete
    deleted,         \* pruneRepository: deleted / the count it returns
    pruneErr,        \* pruneRepository: whether it returns an error
    listed,          \* pruneRepository: whether listTags has returned the tags
    tagDeleteCalls,  \* deleteTag calls of the current pruneRepository, in order
    repoDeleteCalls, \* deleteRepository calls of the current pruneRepository
    tagsDeletedOk,   \* tags the registry deleted in this cycle
    reposDeletedOk,  \* repositories the registry deleted in this cycle
    visited,         \* repositories pruneRepository was called for in this cycle
    gcCalls,         \* garbage-collection requests sent in this cycle
    gcStatus,        \* status of the last garbage-collection response, 0: none
    gcResult         \* what startGarbageCollection returned: "none", "ok", "err"

    \* ---- RegistryProxy request handling
VARIABLES
    authToken,       \* p.authToken: TRUE when set, FALSE when the empty string
    registryName,    \* p.registryName, <<>> when the empty string
    reqs,            \* the ServeHTTP call of each handler goroutine
    served,          \* requests received so far
    tokensIssued     \* bearer tokens the registry auth endpoint has issued

proxyVars == <<authToken, registryName, reqs, served, tokensIssued>>

VARIABLES
    zone,            \* the CNAME records of the DNS zone, as the DNS provider holds them
    zoneID,          \* c.zoneID: FALSE when the empty string, TRUE once looked up
    dns,             \* the EnsureCNAME call of each goroutine that calls it
    dnsStarted,      \* EnsureCNAME calls begun so far
    posts,           \* the create calls issued, in order: the name, and whether
                     \* the zone held a record of that name already
    last             \* the EnsureCNAME call that returned last

dnsVars == <<zone, zoneID, dns, dnsStarted, posts, last>>

VARIABLES
    site,            \* the SitesHandler.ServeHTTP call being served, or served last
    scan,            \* the scan of DNSSyncWorker that runs, or ran last
    wait,            \* the deployment poll of the deploy command
    boot,            \* main of the operator: how far it got and what it started
    sched,           \* the goroutines of Pruner.Start and the clock they run by
    copy             \* the copy of an upstream response body to the client

pruneVars == <<registry, exists, ppc, cycles, repos, ri, totalDeleted, tags,
               keepTags, tagsToDelete, di, deleted, pruneErr, listed,
               tagDeleteCalls, repoDeleteCalls, tagsDeletedOk, reposDeletedOk, visited, gcCalls,
               gcStatus, gcResult>>

vars == <<credVars, pruneVars, proxyVars, dnsVars, site, scan, wait, boot, sched, copy>>

\* what every action of the credential cache leaves alone
otherThanCreds == <<pruneVars, proxyVars, dnsVars, site, scan, wait, boot, sched, copy>>

\* what every action of the pruner leaves alone
otherThanPrune == <<credVars, proxyVars, dnsVars, site, scan, wait, boot, sched, copy>>

\* what every action of the proxy leaves alone: the pruner, and the goroutines
\* of the step-by-step model of getDockerCreds
otherThanProxy == <<pruneVars, dnsVars, rwReaders, rwWriter, pc, creds, tnow, obs,
                    how, ret, calls, started, atCall, site, scan, wait, boot, sched, copy>>

\* what every action of the DNS client leaves alone
otherThanDns == <<credVars, pruneVars, proxyVars, site, scan, wait, boot, sched, copy>>

\* what a scan of DNSSyncWorker leaves alone, the DNS client apart
otherThanScan == <<credVars, pruneVars, proxyVars, site, wait, boot, sched, copy>>

\* what every action of the sites handler leaves alone
otherThanSite == <<credVars, pruneVars, proxyVars, dnsVars, scan, wait, boot, sched, copy>>

\* what every action of a deployment poll leaves alone
otherThanWait == <<credVars, pruneVars, proxyVars, dnsVars, site, scan, boot, sched, copy>>

\* what the goroutines of Pruner.Start leave alone while their timing is examined
otherThanSched == <<credVars, pruneVars, proxyVars, dnsVars, site, scan, wait, boot, copy>>

\* what a request keeps of the request its goroutine served before it:
\* what the client sent and the upstream request made of it
NoBefore ==
    [path |-> <<>>, contentLength |-> 0, headers |-> {}, upPath |-> <<>>,
     upLength |-> 0, upHeaders |-> {}, bearer |-> FALSE, sent |-> FALSE]

\* no request served yet.  Of the client's request: path, contentLength
\* (r.ContentLength, -1 when unknown) and headers (name-value pairs); of the
\* upstream request: upPath, upLength (the length it declares, -1 when
\* unknown), upHeaders and auth (the token of its Authorization header, 0
\* when it has none); of the redirects followed: hops, lastHost, onUpstream
\* and followAuth (the token the last follow-up request carried); of the
\* answer: status, body, apiVersion
NoRequest ==
    [pc |-> "idle", path |-> <<>>, upPath |-> <<>>, repo |-> <<>>, token |-> 0,
     auth |-> 0, exchanges |-> 0, tokensBefore |-> 0, sent |-> FALSE, status |-> 0,
     contentLength |-> 0, headers |-> {}, upLength |-> 0, upHeaders |-> {},
     sends |-> 0, failed |-> "none", hops |-> 0,
     lastHost |-> "none", onUpstream |-> TRUE, followAuth |-> 0, body |-> "",
     apiVersion |-> FALSE, before |-> NoBefore]

Handlers == 1..NumHandlers

\* a RegistryProxy configured with token tok and namespace ns, before any request
ProxyConfigured(tok, ns) ==
    /\ authToken = tok
    /\ registryName = ns
    /\ reqs = [h \in Handlers |-> NoRequest]
    /\ served = 0
    /\ tokensIssued = 0

\* the proxy while another part of the operator is examined
ProxyAtRest == ProxyConfigured(TRUE, <<"ns">>)

\* no record: what findDNSRecord returns as nil
NoRecord == [id |-> 0, name |-> <<>>, content |-> <<>>]

\* no EnsureCNAME call has returned yet
NoLast == [subdomain |-> <<>>, rawTarget |-> <<>>, result |-> "none", writes |-> 0]

\* no EnsureCNAME call made yet; lookup tells how getZoneID of the call got
\* the id: "cached", "sent" (by a lookup) or "late" (by a lookup sent when
\* an id was stored already)
NoCall ==
    [pc |-> "idle", subdomain |-> <<>>, rawTarget |-> <<>>, fullName |-> <<>>,
     target |-> <<>>, existing |-> NoRecord, method |-> "none", writes |-> 0,
     result |-> "none", zone0 |-> {}, prev |-> NoLast, lookup |-> "none"]

\* the goroutines that call EnsureCNAME
DnsCallers == 1..NumDnsCallers

\* a CloudflareClient as NewCloudflareClient returns it, over an empty zone
DnsAtRest ==
    /\ zone = {}
    /\ zoneID = FALSE
    /\ dns = [c \in DnsCallers |-> NoCall]
    /\ dnsStarted = 0
    /\ posts = <<>>
    /\ last = NoLast

\* no request to the sites handler yet.  Of the request: op, body (create),
\* name (get, delete, deploy); of createSite: image and tag after
\* defaulting, checks (what each tagExists call was answered); of
\* findAppByName: appID; calls: the calls made to the platform, in order;
\* slept: the seconds waitForTag spent in time.Sleep; method and path: the
\* method of the request and its path after /sites/
NoSite ==
    [pc |-> "idle", op |-> "none", method |-> "", path |-> "",
     body |-> [json |-> FALSE, name |-> "", image |-> "", tag |-> ""],
     name |-> "", image |-> "", tag |-> "", checks |-> <<>>,
     listing |-> [status |-> 0, apps |-> <<>>], appID |-> "",
     calls |-> <<>>, answer |-> [status |-> 0, parsed |-> FALSE], status |-> 0,
     slept |-> 0]

\* no scan yet: kind ("all" at startup, "new" on the timer), at (time.Now()
\* of the scan, in minutes), apps (the listing), i (the loop index),
\* ensured (the apps EnsureCNAME was called for, by index) and results
NoScan ==
    [pc |-> "idle", kind |-> "none", at |-> 0, listed |-> FALSE, apps |-> <<>>,
     i |-> 0, ensured |-> <<>>, results |-> <<>>, scans |-> 0]

\* no poll yet: kind ("new": waitForDeployment, "redeploy":
\* waitForRedeployment), t (seconds since the poll began), sawDeploying,
\* firstActiveTime (-1: the zero time), status (the phase observed last,
\* "" before the first, "err" for a failed fetch) and, kept for the
\* properties, sawProgress and firstActive (when ACTIVE was first observed)
NoWait ==
    [pc |-> "idle", kind |-> "none", t |-> 0, sawDeploying |-> FALSE,
     firstActiveTime |-> -1, status |-> "", sawProgress |-> FALSE,
     firstActive |-> -1]

\* main before its first statement: what it has made (the proxy, the sites
\* handler) and started (the pruner)
NoBoot == [pc |-> "main", proxy |-> FALSE, sites |-> FALSE, pruner |-> FALSE,
           tls |-> FALSE]

\* Start has just been called: now (seconds since), the goroutine of the
\* first prune (asleep, in Prune until `until`, or done), the goroutine of
\* the ticker (waiting on ticker.C or in Prune until `until`), the time of
\* the next tick, the ticks sent so far and whether one sits in ticker.C
NoSched ==
    [now |-> 0, startup |-> [pc |-> "sleep", until |-> 0],
     ticker |-> [pc |-> "wait", until |-> 0], nextTick |-> 0, ticks |-> 0,
     buffered |-> FALSE, runs |-> 0]

\* no response body copied yet: body (the bytes of the upstream body), nread
\* (how many of them resp.Body.Read has returned), held (buf[:n], the chunk
\* read and not yet written), client (the bytes the client has received),
\* flushed (how many of them were flushed), reads and writes (the calls of
\* Read and Write), failed (a Write returned an error) and closed
\* (resp.Body.Close has run)
NoCopy ==
    [pc |-> "idle", body |-> <<>>, nread |-> 0, held |-> <<>>, client |-> <<>>,
     flushed |-> 0, reads |-> 0, writes |-> 0, failed |-> FALSE, closed |-> FALSE]

\* the rest of the program while one part of it is examined
OpsAtRest ==
    /\ site = NoSite /\ scan = NoScan /\ wait = NoWait /\ boot = NoBoot
    /\ sched = NoSched /\ copy = NoCopy

\* the pruner and the registry while another part of the operator is examined
PrunerAtRest ==
    /\ registry = <<>>
    /\ exists = {}
    /\ ppc = "idle"
    /\ cycles = 0
    /\ repos = <<>>
    /\ ri = 0
    /\ totalDeleted = 0
    /\ tags = {}
    /\ keepTags = {}
    /\ tagsToDelete = <<>>
    /\ di = 0
    /\ deleted = 0
    /\ pruneErr = FALSE
    /\ listed = FALSE
    /\ tagDeleteCalls = <<>>
    /\ repoDeleteCalls = 0
    /\ tagsDeletedOk = 0
    /\ reposDeletedOk = 0
    /\ visited = <<>>
    /\ gcCalls = 0
    /\ gcStatus = 0
    /\ gcResult = "none"

Callers == 1..NumCallers

NoResult == [creds |-> 0, err |-> FALSE]

(***************************************************************************)
(* time.Time.Before                                                        *)
(***************************************************************************)
BeforeInclusive(t, u) == t <= u

Before(t, u) == t < u

\* the cache test of getDockerCreds: p.dockerCreds != "" && time.Now().Before(p.credsExpiry)
CacheValid == dockerCreds # 0 /\ Before(now, credsExpiry)

\* the goroutines between the start of fetchDockerCreds and the end of the stores
Refreshing == {g \in Callers : pc[g] \in {"fetching", "store1", "store2"}}

\* the credential cache of a new RegistryProxy
CredsAtRest ==
    /\ now = 0
    /\ dockerCreds = 0
    /\ credsExpiry = 0
    /\ rwReaders = {}
    /\ rwWriter = 0
    /\ pc = [g \in Callers |-> "idle"]
    /\ creds = [g \in Callers |-> 0]
    /\ tnow = [g \in Callers |-> 0]
    /\ obs = [g \in Callers |-> <<0, 0>>]
    /\ how = [g \in Callers |-> "none"]
    /\ ret = [g \in Callers |-> NoResult]
    /\ calls = [g \in Callers |-> 0]
    /\ started = 0
    /\ atCall = [g \in Callers |-> [fc |-> 0, valid |-> FALSE, creds |-> 0, busy |-> FALSE]]
    /\ fetchCount = 0
    /\ fetchFails = 0
    /\ committed = {<<0, 0>>}

InitCreds == CredsAtRest /\ PrunerAtRest /\ ProxyAtRest /\ DnsAtRest /\ OpsAtRest

\* time passes
Tick ==
    /\ now + TickMinutes <= MaxNow
    /\ now' = now + TickMinutes
    /\ UNCHANGED <<dockerCreds, credsExpiry, rwReaders, rwWriter, pc, creds,
                   tnow, obs, how, ret, calls, fetchCount, fetchFails, committed>>
    /\ UNCHANGED <<started, atCall, otherThanCreds>>

\* a goroutine enters getDockerCreds
Call(g) ==
    /\ pc[g] \in {"idle", "done"}
    /\ started < MaxCalls
    /\ started' = started + 1
    /\ pc' = [pc EXCEPT ![g] = "rlock"]
    /\ creds' = [creds EXCEPT ![g] = 0]
    /\ how' = [how EXCEPT ![g] = "none"]
    /\ ret' = [ret EXCEPT ![g] = NoResult]
    /\ atCall' = [atCall EXCEPT ![g] =
                     [fc |-> fetchCount, valid |-> CacheValid, creds |-> dockerCreds,
                      busy |-> Refreshing # {}]]
    /\ UNCHANGED <<now, dockerCreds, credsExpiry, rwReaders, rwWriter, tnow, obs,
                   calls, fetchCount, fetchFails, committed>>
    /\ UNCHANGED otherThanCreds

\* p.credsMu.RLock()
RLock(g) ==
    /\ pc[g] = "rlock"
    /\ rwWriter = 0
    /\ rwReaders' = rwReaders \cup {g}
    /\ pc' = [pc EXCEPT ![g] = "rcheck"]
    /\ UNCHANGED <<now, dockerCreds, credsExpiry, rwWriter, creds, tnow, obs, how,
                   ret, calls, fetchCount, fetchFails, committed>>
    /\ UNCHANGED <<started, atCall, otherThanCreds>>

\* the first test of the cache, and creds := p.dockerCreds when it passes
ReadCheck(g) ==
    /\ pc[g] = "rcheck"
    /\ obs' = [obs EXCEPT ![g] = <<dockerCreds, credsExpiry>>]
    /\ tnow' = [tnow EXCEPT ![g] = IF dockerCreds # 0 THEN now ELSE @]
    /\ IF CacheValid
         THEN /\ creds' = [creds EXCEPT ![g] = dockerCreds]
              /\ how' = [how EXCEPT ![g] = "fast"]
              /\ pc' = [pc EXCEPT ![g] = "rhit"]
         ELSE /\ pc' = [pc EXCEPT ![g] = "rmiss"]
              /\ UNCHANGED <<creds, how>>
    /\ UNCHANGED <<now, dockerCreds, credsExpiry, rwReaders, rwWriter, ret, calls,
                   fetchCount, fetchFails, committed>>
    /\ UNCHANGED <<started, atCall, otherThanCreds>>

\* p.credsMu.RUnlock(); return creds, nil
RUnlockReturn(g) ==
    /\ pc[g] = "rhit"
    /\ rwReaders' = rwReaders \ {g}
    /\ ret' = [ret EXCEPT ![g] = [creds |-> creds[g], err |-> FALSE]]
    /\ calls' = [calls EXCEPT ![g] = @ + 1]
    /\ pc' = [pc EXCEPT ![g] = "done"]
    /\ UNCHANGED <<now, dockerCreds, credsExpiry, rwWriter, creds, tnow, obs, how,
                   fetchCount, fetchFails, committed>>
    /\ UNCHANGED <<started, atCall, otherThanCreds>>

\* p.credsMu.RUnlock() on the miss path
RUnlock(g) ==
    /\ pc[g] = "rmiss"
    /\ rwReaders' = rwReaders \ {g}
    /\ pc' = [pc EXCEPT ![g] = "lock"]
    /\ UNCHANGED <<now, dockerCreds, credsExpiry, rwWriter, creds, tnow, obs, how,
                   ret, calls, fetchCount, fetchFails, committed>>
    /\ UNCHANGED <<started, atCall, otherThanCreds>>

\* a Lock that does not wait for the lock to be free
LockNoExclusion(g) ==
    /\ pc[g] = "lock"
    /\ rwWriter' = g
    /\ pc' = [pc EXCEPT ![g] = "wcheck"]
    /\ UNCHANGED <<now, dockerCreds, credsExpiry, rwReaders, creds, tnow, obs, how,
                   ret, calls, fetchCount, fetchFails, committed>>
    /\ UNCHANGED <<started, atCall, otherThanCreds>>

\* p.credsMu.Lock()
Lock(g) ==
    /\ pc[g] = "lock"
    /\ rwWriter = 0
    /\ rwReaders = {}
    /\ rwWriter' = g
    /\ pc' = [pc EXCEPT ![g] = "wcheck"]
    /\ UNCHANGED <<now, dockerCreds, credsExpiry, rwReaders, creds, tnow, obs, how,
                   ret, calls, fetchCount, fetchFails, committed>>
    /\ UNCHANGED <<started, atCall, otherThanCreds>>

\* a second test that never finds the cache filled
RecheckAlwaysMiss(g) ==
    /\ pc[g] = "wcheck"
    /\ obs' = [obs EXCEPT ![g] = <<dockerCreds, credsExpiry>>]
    /\ tnow' = [tnow EXCEPT ![g] = IF dockerCreds # 0 THEN now ELSE @]
    /\ pc' = [pc EXCEPT ![g] = "fetch"]
    /\ UNCHANGED <<creds, how>>
    /\ UNCHANGED <<now, dockerCreds, credsExpiry, rwReaders, rwWriter, ret, calls,
                   fetchCount, fetchFails, committed>>
    /\ UNCHANGED <<started, atCall, otherThanCreds>>

\* the second test of the cache, under the write lock
Recheck(g) ==
    /\ pc[g] = "wcheck"
    /\ obs' = [obs EXCEPT ![g] = <<dockerCreds, credsExpiry>>]
    /\ tnow' = [tnow EXCEPT ![g] = IF dockerCreds # 0 THEN now ELSE @]
    /\ IF CacheValid
         THEN /\ creds' = [creds EXCEPT ![g] = dockerCreds]
              /\ how' = [how EXCEPT ![g] = "recheck"]
              /\ pc' = [pc EXCEPT ![g] = "unlock"]
         ELSE /\ pc' = [pc EXCEPT ![g] = "fetch"]
              /\ UNCHANGED <<creds, how>>
    /\ UNCHANGED <<now, dockerCreds, credsExpiry, rwReaders, rwWriter, ret, calls,
                   fetchCount, fetchFails, committed>>
    /\ UNCHANGED <<started, atCall, otherThanCreds>>

\* creds, err := p.fetchDockerCreds(): the request leaves
FetchStart(g) ==
    /\ pc[g] = "fetch"
    /\ fetchCount' = fetchCount + 1
    /\ pc' = [pc EXCEPT ![g] = "fetching"]
    /\ UNCHANGED <<now, dockerCreds, credsExpiry, rwReaders, rwWriter, creds, tnow,
                   obs, how, ret, calls, fetchFails, committed>>
    /\ UNCHANGED <<started, atCall, otherThanCreds>>

\* fetchDockerCreds returns a secret (never the empty string)
FetchOk(g) ==
    /\ pc[g] = "fetching"
    /\ creds' = [creds EXCEPT ![g] = fetchCount]
    /\ how' = [how EXCEPT ![g] = "fetch"]
    /\ pc' = [pc EXCEPT ![g] = "store1"]
    /\ UNCHANGED <<now, dockerCreds, credsExpiry, rwReaders, rwWriter, tnow, obs,
                   ret, calls, fetchCount, fetchFails, committed>>
    /\ UNCHANGED <<started, atCall, otherThanCreds>>

\* fetchDockerCreds returns an error: return "", err
FetchErr(g) ==
    /\ pc[g] = "fetching"
    /\ fetchFails' = fetchFails + 1
    /\ creds' = [creds EXCEPT ![g] = 0]
    /\ how' = [how EXCEPT ![g] = "error"]
    /\ pc' = [pc EXCEPT ![g] = "unlock"]
    /\ UNCHANGED <<now, dockerCreds, credsExpiry, rwReaders, rwWriter, tnow, obs,
                   ret, calls, fetchCount, committed>>
    /\ UNCHANGED <<started, atCall, otherThanCreds>>

\* p.dockerCreds = creds
StoreCreds(g) ==
    /\ pc[g] = "store1"
    /\ dockerCreds' = creds[g]
    /\ pc' = [pc EXCEPT ![g] = "store2"]
    /\ UNCHANGED <<now, credsExpiry, rwReaders, rwWriter, creds, tnow, obs, how,
                   ret, calls, fetchCount, fetchFails, committed>>
    /\ UNCHANGED <<started, atCall, otherThanCreds>>

\* p.credsExpiry = time.Now().Add(30 * time.Minute)
StoreExpiry(g) ==
    /\ pc[g] = "store2"
    /\ tnow' = [tnow EXCEPT ![g] = now]
    /\ credsExpiry' = now + CredsTTLMinutes
    /\ committed' = committed \cup {<<dockerCreds, now + CredsTTLMinutes>>}
    /\ pc' = [pc EXCEPT ![g] = "unlock"]
    /\ UNCHANGED <<now, dockerCreds, rwReaders, rwWriter, creds, obs, how, ret,
                   calls, fetchCount, fetchFails>>
    /\ UNCHANGED <<started, atCall, otherThanCreds>>

\* the deferred p.credsMu.Unlock() and the return
UnlockReturn(g) ==
    /\ pc[g] = "unlock"
    /\ rwWriter' = IF rwWriter = g THEN 0 ELSE rwWriter
    /\ ret' = [ret EXCEPT ![g] = [creds |-> creds[g], err |-> how[g] = "error"]]
    /\ calls' = [calls EXCEPT ![g] = @ + 1]
    /\ pc' = [pc EXCEPT ![g] = "done"]
    /\ UNCHANGED <<now, dockerCreds, credsExpiry, rwReaders, creds, tnow, obs, how,
                   fetchCount, fetchFails, committed>>
    /\ UNCHANGED <<started, atCall, otherThanCreds>>

NextCreds ==
    \/ Tick
    \/ \E g \in Callers :
          \/ Call(g)
          \/ RLock(g)
          \/ ReadCheck(g)
          \/ RUnlockReturn(g)
          \/ RUnlock(g)
          \/ Lock(g)
          \/ Recheck(g)
          \/ FetchStart(g)
          \/ FetchOk(g)
          \/ FetchErr(g)
          \/ StoreCreds(g)
          \/ StoreExpiry(g)
          \/ UnlockReturn(g)

SpecCreds == InitCreds /\ [][NextCreds]_vars

(***************************************************************************)
(* Properties of the credential cache, checked under SpecCreds.            *)
(***************************************************************************)

\* every goroutine has made exactly one call and it has returned
FirstRoundDone == \A g \in Callers : pc[g] = "done" /\ calls[g] = 1

\* the expiry the cache stored together with secret c
ExpiryOf(c) == CHOOSE e \in {p[2] : p \in {q \in committed : q[1] = c}} : TRUE

\* C1: single-flight. When the cache starts empty, every goroutine calls
\* getDockerCreds once, no fetch fails and all of it happens before any
\* credential can have expired, fetchDockerCreds ran exactly once and every
\* caller got the same (non-empty) credential.
C1_SingleFlight ==
    (FirstRoundDone /\ fetchFails = 0 /\ now < CredsTTLMinutes)
        => /\ fetchCount = 1
           /\ \A g \in Callers : ~ret[g].err /\ ret[g].creds = dockerCreds
           /\ dockerCreds # 0

\* C1 witness: all callers returned from concurrent first calls, one of them
\* having waited for the write lock and found the cache filled by the other
C1_Witness ==
    /\ NumCallers >= 2
    /\ FirstRoundDone /\ fetchFails = 0 /\ now < CredsTTLMinutes
    /\ fetchCount = 1
    /\ \E g \in Callers : how[g] = "recheck"
    /\ \E g \in Callers : how[g] = "fetch"

\* C2: at most one refresh is in flight at any time, and every pair
\* (dockerCreds, credsExpiry) a call reads is one the cache held between
\* refreshes: never a new secret with the old expiry or the reverse.
C2_OneRefreshAtomicPair ==
    /\ Cardinality(Refreshing) <= 1
    /\ \A g \in Callers : obs[g] \in committed

\* C2 witness: a goroutine is half-way through replacing an expired
\* credential (secret written, expiry not yet) while another waits for the lock
C2_Witness ==
    \E g, h \in Callers :
        /\ g # h
        /\ pc[g] = "store2"
        /\ <<dockerCreds, credsExpiry>> \notin committed
        /\ credsExpiry # 0
        /\ pc[h] \in {"rlock", "lock"}

\* C3: a successful call returns a credential that is unexpired by the clock
\* the call read; no fetch runs while the stored credential is unexpired, and
\* a call made while one credential stays valid returns that credential; a
\* call begun with the cache empty or expired returns a credential fetched
\* after it began, or the one of the refresh under way when it began; a
\* refresh stores expiry = time of the store + 30 minutes.
C3_NeverExpired ==
    \A g \in Callers :
        /\ (pc[g] = "done" /\ ~ret[g].err) =>
              /\ ret[g].creds # 0
              /\ \E p \in committed : p[1] = ret[g].creds
              /\ tnow[g] < ExpiryOf(ret[g].creds)
        /\ (pc[g] = "fetching") => ~CacheValid
        /\ (pc[g] = "done" /\ atCall[g].valid /\ CacheValid
               /\ dockerCreds = atCall[g].creds) =>
              /\ ret[g] = [creds |-> dockerCreds, err |-> FALSE]
              /\ fetchCount = atCall[g].fc
        /\ (pc[g] = "done" /\ ~ret[g].err /\ ~atCall[g].valid) =>
              /\ ret[g].creds >= atCall[g].fc
              /\ ~atCall[g].busy => ret[g].creds > atCall[g].fc
        /\ (pc[g] = "unlock" /\ how[g] = "fetch") =>
              /\ dockerCreds = creds[g]
              /\ credsExpiry = tnow[g] + CredsTTLMinutes

\* C3 witness: a call begun after the stored credential expired has fetched
\* and returned the second credential
C3_Witness ==
    \E g \in Callers :
        /\ pc[g] = "done" /\ ~ret[g].err
        /\ atCall[g].creds = 1 /\ ~atCall[g].valid
        /\ ret[g].creds = 2
        /\ how[g] = "fetch"
        /\ credsExpiry = tnow[g] + CredsTTLMinutes

(***************************************************************************)
(* Registry proxy: ServeHTTP.  A path is the sequence of its segments and  *)
(* slashes, "/v2/img/manifests/latest" being                               *)
(* <<"/", "v2", "/", "img", "/", "manifests", "/", "latest">>.  One step   *)
(* per blocking call; getDockerCreds is taken as one step here, its        *)
(* locking being the subject of SpecCreds.                                 *)
(***************************************************************************)
\* net/http status codes
StatusOK == 200
StatusCreated == 201
StatusNoContent == 204
StatusUnauthorized == 401
StatusConflict == 409
StatusBadRequest == 400
StatusNotFound == 404
StatusMethodNotAllowed == 405
StatusInternalServerError == 500
StatusBadGateway == 502

V2Prefix == <<"/", "v2", "/">>

\* strings.HasPrefix
HasPrefix(str, prefix) ==
    Len(str) >= Len(prefix) /\ SubSeq(str, 1, Len(prefix)) = prefix

\* strings.TrimPrefix
TrimPrefix(str, prefix) ==
    IF HasPrefix(str, prefix) THEN SubSeq(str, Len(prefix) + 1, Len(str)) ELSE str

\* strings.SplitN(str, "/", 2)[0]
FirstPart(str) ==
    IF \A i \in 1..Len(str) : str[i] # "/"
    THEN str
    ELSE LET i == CHOOSE k \in 1..Len(str) :
                      str[k] = "/" /\ \A j \in 1..(k - 1) : str[j] # "/"
         IN  SubSeq(str, 1, i - 1)

\* extractRepoFromPath, <<>> being the empty string
ExtractRepoFromPath(path) ==
    IF ~HasPrefix(path, V2Prefix) THEN <<>>
    ELSE LET rest == TrimPrefix(path, V2Prefix)
         IN  IF HasPrefix(rest, registryName \o <<"/">>)
             THEN LET afterRegistry == TrimPrefix(rest, registryName \o <<"/">>)
                  IN  IF FirstPart(afterRegistry) = <<>> THEN <<>>
                      ELSE registryName \o <<"/">> \o FirstPart(afterRegistry)
             ELSE IF FirstPart(rest) = <<>> THEN <<>>
                  ELSE registryName \o <<"/">> \o FirstPart(rest)

\* a rewriting that inserts the namespace without looking for it
RewritePathAlways(path) ==
    IF registryName # <<>> /\ HasPrefix(path, V2Prefix)
    THEN LET rest == TrimPrefix(path, V2Prefix)
         IN  IF rest # <<>>
             THEN V2Prefix \o registryName \o <<"/">> \o rest
             ELSE path
    ELSE path

\* the path of the upstream request: the namespace inserted after /v2/ unless present
RewritePath(path) ==
    IF registryName # <<>> /\ HasPrefix(path, V2Prefix)
    THEN LET rest == TrimPrefix(path, V2Prefix)
         IN  IF rest # <<>> /\ ~HasPrefix(rest, registryName \o <<"/">>)
             THEN V2Prefix \o registryName \o <<"/">> \o rest
             ELSE path
    ELSE path

\* a test of the base endpoint that knows "/v2/" only
IsBaseEndpointSlashOnly(path) == path = <<"/", "v2", "/">>

\* r.URL.Path == "/v2/" || r.URL.Path == "/v2"
IsBaseEndpoint(path) == path = <<"/", "v2", "/">> \/ path = <<"/", "v2">>

\* the request paths of the model
RequestPaths ==
    { <<"/", "v2", "/">>,
      <<"/", "v2">>,
      <<"/", "v2", "/", "img", "/", "manifests", "/", "latest">>,
      <<"/", "v2", "/", "ns", "/", "img", "/", "manifests", "/", "latest">>,
      <<"/", "v2", "/", "ns", "/">> }

\* what the upstream registry answers, 0 being a transport error
UpstreamOutcomes == {0, StatusOK, StatusUnauthorized}

\* r.ContentLength of the model's requests: no body, a body of 7 bytes
ContentLengths == {0, 7}

\* the headers of the model's requests
ClientHeaders ==
    { {},
      {<<"Authorization", "Basic abc">>},
      {<<"Authorization", "Basic abc">>, <<"Content-Type", "application/json">>} }

\* a list of headers to forward that names Authorization too
headersToForwardAll ==
    {"Accept", "Accept-Encoding", "Content-Type", "Content-Length", "Content-Range",
     "Range", "If-None-Match", "If-Match", "Docker-Content-Digest",
     "Docker-Distribution-API-Version", "User-Agent", "Authorization"}

\* copyRequestHeaders: headersToForward
headersToForward ==
    {"Accept", "Accept-Encoding", "Content-Type", "Content-Length", "Content-Range",
     "Range", "If-None-Match", "If-Match", "Docker-Content-Digest",
     "Docker-Distribution-API-Version", "User-Agent"}

\* copyRequestHeaders: the headers set on the upstream request
CopyRequestHeaders(headers) == {hd \in headers : hd[1] \in headersToForward}

\* an upstream request whose ContentLength is left as NewRequestWithContext
\* set it
UpstreamContentLengthUnset(cl) == 0

\* upstreamReq.ContentLength: 0 from NewRequestWithContext, whose body is
\* no reader of known size; r.ContentLength when that is positive, set by
\* ServeHTTP and again by copyRequestHeaders
UpstreamContentLength(cl) ==
    LET fromNewRequest == 0
        fromServeHTTP == IF cl > 0 THEN cl ELSE fromNewRequest
    IN  IF cl > 0 THEN cl ELSE fromServeHTTP

\* the length net/http declares for an outgoing request: 0 for http.NoBody,
\* else ContentLength, a ContentLength of 0 with a body meaning unknown
OutgoingLength(length, noBody) ==
    IF noBody THEN 0 ELSE IF length # 0 THEN length ELSE -1

\* the length the upstream request declares; r.Body is http.NoBody exactly
\* when r.ContentLength is 0
DeclaredLength(cl) == OutgoingLength(UpstreamContentLength(cl), cl = 0)

\* where a redirect of the upstream leads: the upstream host, a subdomain of
\* it, another host
RedirectHosts == {"upstream", "sub", "other"}

\* net/http follows a redirect with the Authorization header only to the
\* host of the first request or a subdomain of it; CheckRedirect returns nil
\* and changes nothing of that
ShouldCopyHeaderOnRedirect(host) == host \in {"upstream", "sub"}

\* the operator as main wires it: token and namespace set, or either left empty
InitProxy ==
    /\ CredsAtRest
    /\ PrunerAtRest
    /\ DnsAtRest
    /\ OpsAtRest
    /\ \E tok \in BOOLEAN, ns \in {<<>>, <<"ns">>} : ProxyConfigured(tok, ns)

\* what the next request of the goroutine keeps of request r
BeforeOf(r) ==
    [path |-> r.path, contentLength |-> r.contentLength, headers |-> r.headers,
     upPath |-> r.upPath, upLength |-> r.upLength, upHeaders |-> r.upHeaders,
     bearer |-> r.auth # 0, sent |-> r.sent]

\* ServeHTTP up to the first blocking call: the base endpoint is answered
\* at once; else the upstream request is built and, with a token configured
\* and a repository in the path, getTokenForRepo is entered.  With
\* `remember` the request before it is kept for comparison.
Receive(h, path, cl, headers, remember) ==
    /\ reqs[h].pc \in {"idle", "done"}
    /\ served < MaxRequests
    /\ served' = served + 1
    /\ reqs' = [reqs EXCEPT ![h] =
          LET arrived == [NoRequest EXCEPT !.path = path, !.contentLength = cl,
                                           !.headers = headers,
                                           !.tokensBefore = tokensIssued,
                                           !.before = IF remember
                                                       THEN BeforeOf(reqs[h])
                                                       ELSE NoBefore]
          IN  IF IsBaseEndpoint(path)
              THEN [arrived EXCEPT !.pc = "done", !.status = StatusOK, !.body = "{}",
                                   !.apiVersion = TRUE]
              ELSE LET repo == IF authToken THEN ExtractRepoFromPath(path) ELSE <<>>
                   IN  [arrived EXCEPT !.pc = IF repo # <<>> THEN "creds" ELSE "forward",
                                       !.upPath = RewritePath(path),
                                       !.upLength = DeclaredLength(cl),
                                       !.upHeaders = CopyRequestHeaders(headers),
                                       !.repo = repo]]
    /\ UNCHANGED <<authToken, registryName, tokensIssued>>
    /\ UNCHANGED <<now, dockerCreds, credsExpiry, fetchCount, fetchFails, committed>>
    /\ UNCHANGED otherThanProxy

\* getTokenForRepo: getDockerCreds returns the cached secret, or fetches and stores one
GetCredsOk(h) ==
    /\ reqs[h].pc = "creds"
    /\ IF CacheValid
         THEN UNCHANGED <<dockerCreds, credsExpiry, fetchCount, committed>>
         ELSE /\ fetchCount' = fetchCount + 1
              /\ dockerCreds' = fetchCount + 1
              /\ credsExpiry' = now + CredsTTLMinutes
              /\ committed' = committed \cup {<<fetchCount + 1, now + CredsTTLMinutes>>}
    /\ reqs' = [reqs EXCEPT ![h].pc = "exchange"]
    /\ UNCHANGED <<authToken, registryName, served, tokensIssued, now, fetchFails>>
    /\ UNCHANGED otherThanProxy

\* a ServeHTTP that goes on without a token when getTokenForRepo fails
GetCredsErrGoesOn(h) ==
    /\ reqs[h].pc = "creds"
    /\ ~CacheValid
    /\ fetchCount' = fetchCount + 1
    /\ fetchFails' = fetchFails + 1
    /\ reqs' = [reqs EXCEPT ![h].pc = "forward", ![h].failed = "creds"]
    /\ UNCHANGED <<authToken, registryName, served, tokensIssued, now, dockerCreds,
                   credsExpiry, committed>>
    /\ UNCHANGED otherThanProxy

\* getTokenForRepo: getDockerCreds fails; ServeHTTP answers 502
GetCredsErr(h) ==
    /\ reqs[h].pc = "creds"
    /\ ~CacheValid
    /\ fetchCount' = fetchCount + 1
    /\ fetchFails' = fetchFails + 1
    /\ reqs' = [reqs EXCEPT ![h].pc = "done", ![h].status = StatusBadGateway,
                            ![h].failed = "creds"]
    /\ UNCHANGED <<authToken, registryName, served, tokensIssued, now, dockerCreds,
                   credsExpiry, committed>>
    /\ UNCHANGED otherThanProxy

\* a getTokenForRepo that hands out the last token again when there is one
ExchangeOkCached(h) ==
    /\ reqs[h].pc = "exchange"
    /\ IF tokensIssued > 0
         THEN /\ UNCHANGED tokensIssued
              /\ reqs' = [reqs EXCEPT ![h].pc = "forward",
                                      ![h].token = tokensIssued,
                                      ![h].auth = tokensIssued]
         ELSE /\ tokensIssued' = tokensIssued + 1
              /\ reqs' = [reqs EXCEPT ![h].pc = "forward",
                                      ![h].exchanges = @ + 1,
                                      ![h].token = tokensIssued + 1,
                                      ![h].auth = tokensIssued + 1]
    /\ UNCHANGED <<authToken, registryName, served>>
    /\ UNCHANGED <<now, dockerCreds, credsExpiry, fetchCount, fetchFails, committed>>
    /\ UNCHANGED otherThanProxy

\* getTokenForRepo: the scoped-token exchange returns a token, which ServeHTTP
\* sets as the Authorization header of the upstream request
ExchangeOk(h) ==
    /\ reqs[h].pc = "exchange"
    /\ tokensIssued' = tokensIssued + 1
    /\ reqs' = [reqs EXCEPT ![h].pc = "forward",
                            ![h].exchanges = @ + 1,
                            ![h].token = tokensIssued + 1,
                            ![h].auth = tokensIssued + 1]
    /\ UNCHANGED <<authToken, registryName, served>>
    /\ UNCHANGED <<now, dockerCreds, credsExpiry, fetchCount, fetchFails, committed>>
    /\ UNCHANGED otherThanProxy

\* a getTokenForRepo that takes a failed exchange for a stale credential and
\* drops the cached one
ExchangeErrInvalidates(h) ==
    /\ reqs[h].pc = "exchange"
    /\ reqs' = [reqs EXCEPT ![h].pc = "done",
                            ![h].exchanges = @ + 1,
                            ![h].status = StatusBadGateway,
                            ![h].failed = "exchange"]
    /\ dockerCreds' = 0
    /\ credsExpiry' = 0
    /\ UNCHANGED <<authToken, registryName, served, tokensIssued>>
    /\ UNCHANGED <<now, fetchCount, fetchFails, committed>>
    /\ UNCHANGED otherThanProxy

\* getTokenForRepo: the exchange fails (transport error, status other than
\* 200, no token in the body); ServeHTTP answers 502
ExchangeErr(h) ==
    /\ reqs[h].pc = "exchange"
    /\ reqs' = [reqs EXCEPT ![h].pc = "done",
                            ![h].exchanges = @ + 1,
                            ![h].status = StatusBadGateway,
                            ![h].failed = "exchange"]
    /\ UNCHANGED <<authToken, registryName, served, tokensIssued>>
    /\ UNCHANGED <<now, dockerCreds, credsExpiry, fetchCount, fetchFails, committed>>
    /\ UNCHANGED otherThanProxy

\* p.registryClient.Do(upstreamReq) is answered by a redirect, which the
\* client follows with a request to `host`
FollowRedirect(h, host) ==
    /\ reqs[h].pc = "forward"
    /\ reqs[h].hops < MaxRedirects
    /\ reqs' = [reqs EXCEPT ![h].sent = TRUE,
                            ![h].sends = IF reqs[h].hops = 0 THEN @ + 1 ELSE @,
                            ![h].hops = @ + 1,
                            ![h].lastHost = host,
                            ![h].onUpstream = @ /\ host = "upstream",
                            ![h].followAuth =
                                IF ShouldCopyHeaderOnRedirect(host)
                                THEN (IF reqs[h].hops = 0 THEN reqs[h].auth ELSE @)
                                ELSE 0]
    /\ UNCHANGED <<authToken, registryName, served, tokensIssued>>
    /\ UNCHANGED <<now, dockerCreds, credsExpiry, fetchCount, fetchFails, committed>>
    /\ UNCHANGED otherThanProxy

\* p.registryClient.Do(upstreamReq) and the answer to the client
Forward(h, st) ==
    /\ reqs[h].pc = "forward"
    /\ reqs' = [reqs EXCEPT ![h].pc = "done",
                            ![h].sent = TRUE,
                            ![h].sends = IF reqs[h].hops = 0 THEN @ + 1 ELSE @,
                            ![h].failed = IF st = 0 THEN "upstream" ELSE "none",
                            ![h].status = IF st = 0 THEN StatusBadGateway ELSE st]
    /\ UNCHANGED <<authToken, registryName, served, tokensIssued>>
    /\ UNCHANGED <<now, dockerCreds, credsExpiry, fetchCount, fetchFails, committed>>
    /\ UNCHANGED otherThanProxy

NextProxy ==
    \/ Tick
    \/ \E h \in Handlers :
          \/ \E path \in RequestPaths : Receive(h, path, 0, {}, FALSE)
          \/ GetCredsOk(h)
          \/ GetCredsErr(h)
          \/ ExchangeOk(h)
          \/ ExchangeErr(h)
          \/ \E st \in UpstreamOutcomes : Forward(h, st)

SpecProxy == InitProxy /\ [][NextProxy]_vars

\* the goroutine whose requests are followed one after the other
SerialHandler == 1

\* the requests of one connection, one after the other, with their bodies,
\* their headers and the redirects of the upstream, within the lifetime of
\* one credential
NextProxySerial ==
    \/ \E path \in RequestPaths, cl \in ContentLengths, headers \in ClientHeaders :
          Receive(SerialHandler, path, cl, headers, TRUE)
    \/ GetCredsOk(SerialHandler)
    \/ GetCredsErr(SerialHandler)
    \/ ExchangeOk(SerialHandler)
    \/ ExchangeErr(SerialHandler)
    \/ \E host \in RedirectHosts : FollowRedirect(SerialHandler, host)
    \/ \E st \in UpstreamOutcomes : Forward(SerialHandler, st)

SpecProxySerial == InitProxy /\ [][NextProxySerial]_vars

(***************************************************************************)
(* Properties of the proxy, checked under SpecProxy.                       *)
(***************************************************************************)

\* C4: repository tokens are never cached. A proxied request with an
\* extracted repository path makes exactly one scoped-token exchange before
\* the upstream request is sent, the token it sends was issued during the
\* request itself, and no two requests carry the same token.
C4_TokenNeverCached ==
    \A h \in Handlers :
        /\ reqs[h].exchanges <= 1
        /\ (reqs[h].repo # <<>> /\ (reqs[h].pc = "forward" \/ reqs[h].sent)) =>
              /\ reqs[h].exchanges = 1
              /\ reqs[h].token > reqs[h].tokensBefore
              /\ reqs[h].auth = reqs[h].token
        /\ \A k \in Handlers \ {h} :
              reqs[h].token # 0 => reqs[h].token # reqs[k].token

\* C4 witness: two requests for the same repository were sent upstream, the
\* second received after the token of the first was issued, with two tokens
C4_Witness ==
    \E h, k \in Handlers :
        /\ h # k
        /\ reqs[h].sent /\ reqs[k].sent
        /\ reqs[h].repo # <<>> /\ reqs[h].repo = reqs[k].repo
        /\ reqs[h].token # 0
        /\ reqs[k].tokensBefore >= reqs[h].token
        /\ reqs[k].token > reqs[h].token


\* C30: only a successful credential fetch changes the cache. The step in
\* which fetchDockerCreds fails, and the step in which the token exchange of
\* a request fails, leave dockerCreds and credsExpiry as they were; after a
\* failed fetch the cache is still not valid, so the next call fetches
\* again; and a step that changes either variable is a fetch that succeeded.
C30_OnlySuccessChangesCache ==
    [][ /\ (fetchFails' # fetchFails) =>
              /\ dockerCreds' = dockerCreds /\ credsExpiry' = credsExpiry
              /\ ~CacheValid'
              /\ \E h \in Handlers : reqs[h].pc = "creds" /\ reqs'[h].status = StatusBadGateway
        /\ \A h \in Handlers :
              (reqs[h].pc = "exchange" /\ reqs'[h].pc = "done") =>
                  dockerCreds' = dockerCreds /\ credsExpiry' = credsExpiry
        /\ (dockerCreds' # dockerCreds \/ credsExpiry' # credsExpiry) =>
              /\ fetchCount' = fetchCount + 1 /\ fetchFails' = fetchFails
              /\ \E h \in Handlers : reqs[h].pc = "creds" /\ reqs'[h].pc = "exchange"
      ]_vars

\* C30 witness: one request failed at the token exchange and, the cached
\* credential having expired since, another at the credential fetch; the
\* credential fetched first is still the one held
C30_Witness ==
    \E h, k \in Handlers :
        /\ reqs[h].failed = "exchange"
        /\ reqs[k].failed = "creds"
        /\ dockerCreds # 0
        /\ ~CacheValid
        /\ fetchFails = 1

(***************************************************************************)
(* Properties of single requests, checked under SpecProxySerial.           *)
(***************************************************************************)

\* the request being served, or served last
Served == reqs[SerialHandler]

\* an upstream request was built for it
Built == Served.pc # "idle" /\ Served.path \notin {<<"/", "v2", "/">>, <<"/", "v2">>}

NsPrefix == <<"/", "v2", "/">> \o registryName \o <<"/">>

\* C15: path rewriting is idempotent. With a namespace configured, a path
\* /v2/<rest> that does not start with /v2/ns/ becomes /v2/ns/<rest>, a path
\* that starts with /v2/ns/ is left as it is, and rewriting the rewritten
\* path changes nothing: it is what a request for that path is sent as, and
\* the namespace is never inserted twice.
C15_RewriteIdempotent ==
    (Built /\ registryName # <<>>) =>
        /\ ~HasPrefix(Served.path, NsPrefix) =>
              Served.upPath = NsPrefix \o SubSeq(Served.path, 4, Len(Served.path))
        /\ HasPrefix(Served.path, NsPrefix) => Served.upPath = Served.path
        /\ RewritePath(Served.upPath) = Served.upPath
        /\ Served.path = Served.before.upPath => Served.upPath = Served.path
        /\ ~HasPrefix(Served.path, NsPrefix \o registryName \o <<"/">>) =>
              ~HasPrefix(Served.upPath, NsPrefix \o registryName \o <<"/">>)

\* C15 witness: a path was rewritten, and the request made next for the
\* rewritten path was sent with that path
C15_Witness ==
    /\ Built
    /\ registryName = <<"ns">>
    /\ Served.before.path = <<"/", "v2", "/", "img", "/", "manifests", "/", "latest">>
    /\ Served.path = <<"/", "v2", "/", "ns", "/", "img", "/", "manifests", "/", "latest">>
    /\ Served.before.upPath = Served.path
    /\ Served.upPath = Served.path
    /\ Served.sent

OnRoot(r) == r.pc # "idle" /\ r.path \in {<<"/", "v2", "/">>, <<"/", "v2">>}

\* C17: base discovery always succeeds. A request on /v2/ or /v2 is answered
\* 200 with body {} and the Docker-Distribution-API-Version header, whatever
\* headers the client sent and whatever the credential cache holds, and the
\* step that serves it fetches no credential, exchanges no token and sends
\* nothing upstream.
C17_BaseDiscovery ==
    /\ [](OnRoot(Served) =>
            /\ Served.pc = "done"
            /\ Served.status = 200
            /\ Served.body = "{}"
            /\ Served.apiVersion
            /\ ~Served.sent /\ Served.sends = 0
            /\ Served.exchanges = 0 /\ Served.token = 0 /\ Served.auth = 0)
    /\ [][(OnRoot(Served') /\ Served' # Served) =>
            /\ Served.pc \in {"idle", "done"}
            /\ fetchCount' = fetchCount
            /\ fetchFails' = fetchFails
            /\ tokensIssued' = tokensIssued]_vars

\* C17 witness: /v2 was answered with client credentials in the request,
\* after a request whose credential fetch had failed
C17_Witness ==
    /\ OnRoot(Served)
    /\ Served.path = <<"/", "v2">>
    /\ Served.status = 200
    /\ <<"Authorization", "Basic abc">> \in Served.headers
    /\ dockerCreds = 0 /\ fetchFails > 0

\* the headers of a request other than Authorization
NonAuthorization(headers) == {hd \in headers : hd[1] # "Authorization"}

C19_FailureSemantics ==
    /\ Served.exchanges <= 1
    /\ Served.sends <= 1
    /\ Served.failed # "none" => Served.pc = "done" /\ Served.status = 502
    /\ Served.failed \in {"creds", "exchange"} => ~Served.sent /\ Served.sends = 0
    /\ Served.failed = "creds" => Served.exchanges = 0
    /\ Served.failed = "exchange" => Served.exchanges = 1 /\ Served.token = 0
    /\ Served.failed = "upstream" => Served.sends = 1
    /\ (Served.pc = "done" /\ Served.repo # <<>> /\ Served.token = 0) =>
          Served.status = 502 /\ ~Served.sent

\* C19 witness: a request failed at the token exchange and the next one at
\* the upstream transport
C19_Witness ==
    /\ Served.failed = "upstream"
    /\ Served.status = 502
    /\ Served.exchanges = 1
    /\ ~Served.before.sent /\ Served.before.path # <<>> /\ Served.before.upPath # <<>>
    /\ dockerCreds # 0

\* C20: a redirect of the upstream to a host other than the upstream host is
\* followed without the Authorization header the proxy set; a redirect that
\* stays on the upstream host is followed with it.
C20_RedirectAuth ==
    Served.hops > 0 =>
        /\ Served.lastHost # "upstream" => Served.followAuth = 0
        /\ Served.onUpstream => Served.followAuth = Served.auth

\* C35: the token scope matches the forwarded path. Whenever
\* extractRepoFromPath returned a repository for a request, the path of the
\* upstream request is /v2/ followed by that repository, and by / and the
\* rest of the path if there is one.
C35_ScopeMatchesPath ==
    (Built /\ Served.repo # <<>>) =>
        HasPrefix(Served.upPath \o <<"/">>, <<"/", "v2", "/">> \o Served.repo \o <<"/">>)

\* C36: a token is fetched and injected exactly when a namespace is
\* configured. With an empty namespace a request makes no token exchange and
\* its upstream request carries no Authorization header; with a namespace
\* every request sent upstream, the base endpoint apart, carries a token that
\* was obtained for its repository.
C36_TokenIffNamespace ==
    Built =>
        /\ registryName = <<>> =>
              /\ Served.pc \notin {"creds", "exchange"}
              /\ Served.exchanges = 0
              /\ Served.auth = 0
        /\ (registryName # <<>> /\ Served.sent) =>
              Served.auth # 0 /\ Served.repo # <<>>


(***************************************************************************)
(* Retention Pruner.  Tag names are sequences of characters, so that the   *)
(* semver pattern and strconv.Atoi are computed and not assumed.           *)
(***************************************************************************)
keepVersions == 3
keepLatest == TRUE

\* what an HTTP call of the pruner can end in: a status, or 0 for an error of
\* p.client.Do (transport failure, timeout)
Responses == {0, StatusOK, StatusCreated, StatusNoContent, StatusUnauthorized,
              StatusConflict}

Digits == {"0", "1", "2", "3", "4", "5", "6", "7", "8", "9"}

DigitValue(c) ==
    CASE c = "0" -> 0 [] c = "1" -> 1 [] c = "2" -> 2 [] c = "3" -> 3
      [] c = "4" -> 4 [] c = "5" -> 5 [] c = "6" -> 6 [] c = "7" -> 7
      [] c = "8" -> 8 [] c = "9" -> 9

\* strconv.Atoi on a string of decimal digits
RECURSIVE Atoi(_)
Atoi(ds) ==
    IF ds = <<>> THEN 0
    ELSE Atoi(SubSeq(ds, 1, Len(ds) - 1)) * 10 + DigitValue(ds[Len(ds)])

\* the pieces of s between its dots
RECURSIVE SplitDots(_)
SplitDots(s) ==
    IF \A i \in 1..Len(s) : s[i] # "."
    THEN <<s>>
    ELSE LET i == CHOOSE k \in 1..Len(s) :
                      s[k] = "." /\ \A j \in 1..(k - 1) : s[j] # "."
         IN  <<SubSeq(s, 1, i - 1)>> \o SplitDots(SubSeq(s, i + 1, Len(s)))

IsNumber(s) == s # <<>> /\ \A i \in 1..Len(s) : s[i] \in Digits

\* the groups of semverRegex ^v?(\d+)\.(\d+)\.(\d+)$ on name, <<>> when it does not match
SemverMatch(name) ==
    LET body == IF name # <<>> /\ name[1] = "v" THEN Tail(name) ELSE name
        parts == SplitDots(body)
    IN  IF Len(parts) = 3 /\ \A i \in 1..3 : IsNumber(parts[i])
        THEN parts ELSE <<>>

IsLatest(t) == t.Tag = <<"l", "a", "t", "e", "s", "t">>

IsSemver(t) == ~IsLatest(t) /\ SemverMatch(t.Tag) # <<>>

IsOther(t) == ~IsLatest(t) /\ SemverMatch(t.Tag) = <<>>

\* the SemVer built for a matching tag
SemVerOf(t) ==
    LET m == SemverMatch(t.Tag)
    IN  [Major |-> Atoi(m[1]), Minor |-> Atoi(m[2]), Patch |-> Atoi(m[3]),
         Raw |-> t.Tag]

\* a less function that forgets the minor version
VersionBeforeNoMinor(a, b) ==
    IF a.Major # b.Major THEN a.Major > b.Major
    ELSE a.Patch > b.Patch

\* the less function of the sort of versionTags: a sorts before b
VersionBefore(a, b) ==
    IF a.Major # b.Major THEN a.Major > b.Major
    ELSE IF a.Minor # b.Minor THEN a.Minor > b.Minor
    ELSE a.Patch > b.Patch

\* a less function that puts the oldest first
OtherBeforeAscending(a, b) == a.UpdatedAt < b.UpdatedAt

\* the less function of the sort of otherTags: a.UpdatedAt.After(b.UpdatedAt)
OtherBefore(a, b) == a.UpdatedAt > b.UpdatedAt

\* sort.Slice is not stable: every order of S that the less function allows
RECURSIVE SortVersions(_)
SortVersions(S) ==
    IF S = {} THEN {<<>>}
    ELSE UNION {{<<m>> \o rest : rest \in SortVersions(S \ {m})} :
                   m \in {x \in S : \A y \in S : ~VersionBefore(y, x)}}

RECURSIVE SortOthers(_)
SortOthers(S) ==
    IF S = {} THEN {<<>>}
    ELSE UNION {{<<m>> \o rest : rest \in SortOthers(S \ {m})} :
                   m \in {x \in S : \A y \in S : ~OtherBefore(y, x)}}

Min(a, b) == IF a < b THEN a ELSE b

\* a keep set that takes the newest non-semver tags also when semver tags exist
KeepOfBothKinds(tagset, versionTags, otherTags) ==
    (IF (\E t \in tagset : IsLatest(t)) /\ keepLatest
       THEN {t.Tag : t \in {u \in tagset : IsLatest(u)}} ELSE {})
    \cup {versionTags[i].Raw : i \in 1..Min(Len(versionTags), keepVersions)}
    \cup {otherTags[i].Tag : i \in 1..Min(Len(otherTags), keepVersions)}

\* keepTags of pruneRepository, from the sorted versionTags and otherTags
KeepOf(tagset, versionTags, otherTags) ==
    (IF (\E t \in tagset : IsLatest(t)) /\ keepLatest
       THEN {t.Tag : t \in {u \in tagset : IsLatest(u)}} ELSE {})
    \cup {versionTags[i].Raw : i \in 1..Min(Len(versionTags), keepVersions)}
    \cup (IF Len(versionTags) = 0
            THEN {otherTags[i].Tag : i \in 1..Min(Len(otherTags), keepVersions)}
            ELSE {})

\* a delete list that also takes the non-semver tags when semver tags exist
DeleteOfComplement(versionTags, otherTags) ==
    [i \in 1..(IF Len(versionTags) > keepVersions
                 THEN Len(versionTags) - keepVersions ELSE 0) |->
        versionTags[keepVersions + i].Raw]
    \o (IF Len(versionTags) = 0
          THEN [i \in 1..(IF Len(otherTags) > keepVersions
                            THEN Len(otherTags) - keepVersions ELSE 0) |->
                  otherTags[keepVersions + i].Tag]
          ELSE [i \in 1..Len(otherTags) |-> otherTags[i].Tag])

\* tagsToDelete of pruneRepository
DeleteOf(versionTags, otherTags) ==
    [i \in 1..(IF Len(versionTags) > keepVersions
                 THEN Len(versionTags) - keepVersions ELSE 0) |->
        versionTags[keepVersions + i].Raw]
    \o (IF Len(versionTags) = 0
          THEN [i \in 1..(IF Len(otherTags) > keepVersions
                            THEN Len(otherTags) - keepVersions ELSE 0) |->
                  otherTags[keepVersions + i].Tag]
          ELSE <<>>)

\* the ascending sequence of a set of repository numbers
RECURSIVE SeqOf(_)
SeqOf(S) ==
    IF S = {} THEN <<>>
    ELSE LET m == CHOOSE x \in S : \A y \in S : x <= y
         IN  <<m>> \o SeqOf(S \ {m})

\* startGarbageCollection treating only 201 as success
GcSucceedsOnlyCreated(st) == st = StatusCreated

\* startGarbageCollection: 201 Created or 409 Conflict are both OK
GcSucceeds(st) == st # 0 /\ ~(st # StatusCreated /\ st # StatusConflict)

\* deleteTag / deleteRepository: 204 or 200 are success
DeleteSucceeds(st) == st # 0 /\ ~(st # StatusNoContent /\ st # StatusOK)

\* TagInfo
TagInfo(name, t) == [Tag |-> name, UpdatedAt |-> t]

\* the tags a repository can hold in the model, with their update times
TagUniverse ==
    { TagInfo(<<"l", "a", "t", "e", "s", "t">>, 9),
      TagInfo(<<"v", "2", ".", "0", ".", "0">>, 1),
      TagInfo(<<"v", "1", ".", "1", "0", ".", "0">>, 2),
      TagInfo(<<"v", "1", ".", "9", ".", "0">>, 8),
      TagInfo(<<"1", ".", "9", ".", "0">>, 3),
      TagInfo(<<"v", "1", ".", "8", ".", "0">>, 7),
      TagInfo(<<"v", "1", ".", "7", ".", "0">>, 6),
      TagInfo(<<"b", "u", "i", "l", "d", "-", "1", "0", "0">>, 5),
      TagInfo(<<"b", "u", "i", "l", "d", "-", "9", "9">>, 4),
      TagInfo(<<"b", "u", "i", "l", "d", "-", "9", "8">>, 3),
      TagInfo(<<"b", "u", "i", "l", "d", "-", "9", "7">>, 2),
      TagInfo(<<"v", "1", ".", "7">>, 3) }

TagNamed(name) == CHOOSE t \in TagUniverse : t.Tag = name

\* the repository contents used when several repositories are pruned in a cycle
SampleTagSets ==
    { {},
      {TagNamed(<<"l", "a", "t", "e", "s", "t">>)},
      {TagNamed(<<"l", "a", "t", "e", "s", "t">>),
       TagNamed(<<"v", "2", ".", "0", ".", "0">>),
       TagNamed(<<"v", "1", ".", "9", ".", "0">>),
       TagNamed(<<"v", "1", ".", "8", ".", "0">>),
       TagNamed(<<"v", "1", ".", "7", ".", "0">>)},
      {TagNamed(<<"b", "u", "i", "l", "d", "-", "1", "0", "0">>),
       TagNamed(<<"b", "u", "i", "l", "d", "-", "9", "9">>),
       TagNamed(<<"b", "u", "i", "l", "d", "-", "9", "8">>),
       TagNamed(<<"b", "u", "i", "l", "d", "-", "9", "7">>)},
      {TagNamed(<<"v", "2", ".", "0", ".", "0">>),
       TagNamed(<<"b", "u", "i", "l", "d", "-", "9", "7">>)},
      {TagNamed(<<"v", "2", ".", "0", ".", "0">>),
       TagNamed(<<"v", "1", ".", "1", "0", ".", "0">>),
       TagNamed(<<"v", "1", ".", "9", ".", "0">>),
       TagNamed(<<"v", "1", ".", "8", ".", "0">>),
       TagNamed(<<"v", "1", ".", "7", ".", "0">>)} }

Repos == 1..MaxRepos

\* the pruner before its first cycle, over a registry holding `held` with tags `reg`
InitPruner(held, reg) ==
    /\ exists = held
    /\ registry = reg
    /\ ppc = "idle"
    /\ cycles = 0
    /\ repos = <<>>
    /\ ri = 0
    /\ totalDeleted = 0
    /\ tags = {}
    /\ keepTags = {}
    /\ tagsToDelete = <<>>
    /\ di = 0
    /\ deleted = 0
    /\ pruneErr = FALSE
    /\ listed = FALSE
    /\ tagDeleteCalls = <<>>
    /\ repoDeleteCalls = 0
    /\ tagsDeletedOk = 0
    /\ reposDeletedOk = 0
    /\ visited = <<>>
    /\ gcCalls = 0
    /\ gcStatus = 0
    /\ gcResult = "none"

\* one repository holding any set of tags of the universe
InitRetention ==
    /\ CredsAtRest
    /\ ProxyAtRest
    /\ DnsAtRest
    /\ OpsAtRest
    /\ \E T \in SUBSET TagUniverse :
          InitPruner({1}, [r \in Repos |-> IF r = 1 THEN T ELSE {}])

\* MaxRepos repositories, each holding one of the sample tag sets
InitPrune ==
    /\ CredsAtRest
    /\ ProxyAtRest
    /\ DnsAtRest
    /\ OpsAtRest
    /\ \E reg \in [Repos -> SampleTagSets] : InitPruner(Repos, reg)

\* the head of the loop of Prune, at the i-th repository of rs: the call of
\* pruneRepository, or the end of the loop
BeginRepo(i, rs) ==
    /\ ri' = i
    /\ IF i <= Len(rs)
         THEN ppc' = "listTags" /\ visited' = Append(visited, rs[i])
         ELSE ppc' = "finish" /\ UNCHANGED visited
    /\ tags' = {}
    /\ keepTags' = {}
    /\ tagsToDelete' = <<>>
    /\ di' = 0
    /\ deleted' = 0
    /\ pruneErr' = FALSE
    /\ listed' = FALSE
    /\ tagDeleteCalls' = <<>>
    /\ repoDeleteCalls' = 0

\* the timer fires: Prune begins
StartPrune ==
    /\ ppc = "idle"
    /\ cycles < MaxCycles
    /\ cycles' = cycles + 1
    /\ ppc' = "listRepos"
    /\ repos' = <<>>
    /\ ri' = 0
    /\ totalDeleted' = 0
    /\ tags' = {}
    /\ keepTags' = {}
    /\ tagsToDelete' = <<>>
    /\ di' = 0
    /\ deleted' = 0
    /\ pruneErr' = FALSE
    /\ listed' = FALSE
    /\ tagDeleteCalls' = <<>>
    /\ repoDeleteCalls' = 0
    /\ tagsDeletedOk' = 0
    /\ reposDeletedOk' = 0
    /\ visited' = <<>>
    /\ gcCalls' = 0
    /\ gcStatus' = 0
    /\ gcResult' = "none"
    /\ UNCHANGED <<registry, exists>>
    /\ UNCHANGED otherThanPrune

\* listRepositories succeeds; totalDeleted := 0 and the loop begins
ListReposOk ==
    /\ ppc = "listRepos"
    /\ repos' = SeqOf(exists)
    /\ totalDeleted' = 0
    /\ BeginRepo(1, SeqOf(exists))
    /\ UNCHANGED <<registry, exists, cycles, tagsDeletedOk, reposDeletedOk, gcCalls,
                   gcStatus, gcResult>>
    /\ UNCHANGED otherThanPrune

\* a Prune that goes on to the garbage collection when the listing fails
ListReposErrGoesOn ==
    /\ ppc = "listRepos"
    /\ ppc' = "gc"
    /\ UNCHANGED <<registry, exists, cycles, repos, ri, totalDeleted, tags, keepTags,
                   tagsToDelete, di, deleted, pruneErr, tagDeleteCalls,
                   repoDeleteCalls, tagsDeletedOk, reposDeletedOk, visited, gcCalls,
                   gcStatus, gcResult>>
    /\ UNCHANGED <<listed, otherThanPrune>>

\* listRepositories fails: Prune logs and returns
ListReposErr ==
    /\ ppc = "listRepos"
    /\ ppc' = "idle"
    /\ UNCHANGED <<registry, exists, cycles, repos, ri, totalDeleted, tags, keepTags,
                   tagsToDelete, di, deleted, pruneErr, tagDeleteCalls,
                   repoDeleteCalls, tagsDeletedOk, reposDeletedOk, visited, gcCalls,
                   gcStatus, gcResult>>
    /\ UNCHANGED <<listed, otherThanPrune>>

\* listTags succeeds; the tags are classified, sorted, and the keep and
\* delete sets computed
ListTagsOk ==
    /\ ppc = "listTags"
    /\ LET T == registry[repos[ri]]
       IN  /\ tags' = T
           /\ IF T = {}
                THEN /\ ppc' = "deleteRepo"
                     /\ UNCHANGED <<keepTags, tagsToDelete, di>>
                ELSE \E versionTags \in SortVersions({SemVerOf(t) : t \in {u \in T : IsSemver(u)}}),
                        otherTags \in SortOthers({t \in T : IsOther(t)}) :
                        /\ keepTags' = KeepOf(T, versionTags, otherTags)
                        /\ tagsToDelete' = DeleteOf(versionTags, otherTags)
                        /\ IF DeleteOf(versionTags, otherTags) = <<>>
                             THEN ppc' = "returned" /\ di' = 0
                             ELSE ppc' = "deleteTags" /\ di' = 1
    /\ deleted' = 0
    /\ pruneErr' = FALSE
    /\ listed' = TRUE
    /\ UNCHANGED <<registry, exists, cycles, repos, ri, totalDeleted, tagDeleteCalls,
                   repoDeleteCalls, tagsDeletedOk, reposDeletedOk, visited, gcCalls,
                   gcStatus, gcResult>>
    /\ UNCHANGED otherThanPrune

\* listTags fails: pruneRepository returns 0, err
ListTagsErr ==
    /\ ppc = "listTags"
    /\ pruneErr' = TRUE
    /\ ppc' = "returned"
    /\ UNCHANGED <<registry, exists, cycles, repos, ri, totalDeleted, tags, keepTags,
                   tagsToDelete, di, deleted, tagDeleteCalls, repoDeleteCalls,
                   tagsDeletedOk, reposDeletedOk, visited, gcCalls, gcStatus, gcResult>>
    /\ UNCHANGED <<listed, otherThanPrune>>

\* a deleteRepository that is tried again when it fails
DeleteRepoRetried(st) ==
    /\ ppc = "deleteRepo"
    /\ repoDeleteCalls' = repoDeleteCalls + 1
    /\ IF DeleteSucceeds(st)
         THEN /\ exists' = exists \ {repos[ri]}
              /\ reposDeletedOk' = reposDeletedOk + 1
              /\ deleted' = 1
              /\ pruneErr' = FALSE
              /\ ppc' = "returned"
         ELSE /\ pruneErr' = TRUE
              /\ ppc' = IF repoDeleteCalls = 0 THEN "deleteRepo" ELSE "returned"
              /\ UNCHANGED <<exists, reposDeletedOk, deleted>>
    /\ UNCHANGED <<registry, cycles, repos, ri, totalDeleted, tags, keepTags,
                   tagsToDelete, di, tagDeleteCalls, tagsDeletedOk, visited, gcCalls,
                   gcStatus, gcResult>>
    /\ UNCHANGED <<listed, otherThanPrune>>

\* deleteRepository for a repository without tags; pruneRepository returns
\* 1, nil when it succeeds and 0, err when it fails
DeleteRepo(st) ==
    /\ ppc = "deleteRepo"
    /\ repoDeleteCalls' = repoDeleteCalls + 1
    /\ IF DeleteSucceeds(st)
         THEN /\ exists' = exists \ {repos[ri]}
              /\ reposDeletedOk' = reposDeletedOk + 1
              /\ deleted' = 1
              /\ pruneErr' = FALSE
         ELSE /\ pruneErr' = TRUE
              /\ UNCHANGED <<exists, reposDeletedOk, deleted>>
    /\ ppc' = "returned"
    /\ UNCHANGED <<registry, cycles, repos, ri, totalDeleted, tags, keepTags,
                   tagsToDelete, di, tagDeleteCalls, tagsDeletedOk, visited, gcCalls,
                   gcStatus, gcResult>>
    /\ UNCHANGED <<listed, otherThanPrune>>

\* a loop over tagsToDelete that stops at the first deleteTag that fails
DeleteTagAbort(st) ==
    /\ ppc = "deleteTags"
    /\ tagDeleteCalls' = Append(tagDeleteCalls, tagsToDelete[di])
    /\ IF DeleteSucceeds(st)
         THEN /\ registry' = [registry EXCEPT ![repos[ri]] =
                                  {t \in @ : t.Tag # tagsToDelete[di]}]
              /\ deleted' = deleted + 1
              /\ tagsDeletedOk' = tagsDeletedOk + 1
              /\ ppc' = IF di + 1 > Len(tagsToDelete) THEN "returned" ELSE "deleteTags"
         ELSE /\ ppc' = "returned"
              /\ UNCHANGED <<registry, deleted, tagsDeletedOk>>
    /\ di' = di + 1
    /\ UNCHANGED <<exists, cycles, repos, ri, totalDeleted, tags, keepTags,
                   tagsToDelete, pruneErr, repoDeleteCalls, reposDeletedOk, visited,
                   gcCalls, gcStatus, gcResult>>
    /\ UNCHANGED <<listed, otherThanPrune>>

\* one round of the loop over tagsToDelete: deleteTag, counted when it succeeds
DeleteTag(st) ==
    /\ ppc = "deleteTags"
    /\ tagDeleteCalls' = Append(tagDeleteCalls, tagsToDelete[di])
    /\ IF DeleteSucceeds(st)
         THEN /\ registry' = [registry EXCEPT ![repos[ri]] =
                                  {t \in @ : t.Tag # tagsToDelete[di]}]
              /\ deleted' = deleted + 1
              /\ tagsDeletedOk' = tagsDeletedOk + 1
         ELSE UNCHANGED <<registry, deleted, tagsDeletedOk>>
    /\ di' = di + 1
    /\ ppc' = IF di + 1 > Len(tagsToDelete) THEN "returned" ELSE "deleteTags"
    /\ UNCHANGED <<exists, cycles, repos, ri, totalDeleted, tags, keepTags,
                   tagsToDelete, pruneErr, repoDeleteCalls, reposDeletedOk, visited,
                   gcCalls, gcStatus, gcResult>>
    /\ UNCHANGED <<listed, otherThanPrune>>

\* Prune takes the result of pruneRepository and goes to the next repository
PruneReturn ==
    /\ ppc = "returned"
    /\ totalDeleted' = IF pruneErr THEN totalDeleted ELSE totalDeleted + deleted
    /\ BeginRepo(ri + 1, repos)
    /\ UNCHANGED <<registry, exists, cycles, repos, tagsDeletedOk, reposDeletedOk,
                   gcCalls, gcStatus, gcResult>>
    /\ UNCHANGED otherThanPrune

\* an end of cycle that always starts the garbage collection
FinishAlwaysGC ==
    /\ ppc = "finish"
    /\ ppc' = "gc"
    /\ UNCHANGED <<registry, exists, cycles, repos, ri, totalDeleted, tags, keepTags,
                   tagsToDelete, di, deleted, pruneErr, tagDeleteCalls,
                   repoDeleteCalls, tagsDeletedOk, reposDeletedOk, visited, gcCalls,
                   gcStatus, gcResult>>
    /\ UNCHANGED <<listed, otherThanPrune>>

\* after the loop: if totalDeleted > 0, garbage collection; else done
Finish ==
    /\ ppc = "finish"
    /\ ppc' = IF totalDeleted > 0 THEN "gc" ELSE "idle"
    /\ UNCHANGED <<registry, exists, cycles, repos, ri, totalDeleted, tags, keepTags,
                   tagsToDelete, di, deleted, pruneErr, tagDeleteCalls,
                   repoDeleteCalls, tagsDeletedOk, reposDeletedOk, visited, gcCalls,
                   gcStatus, gcResult>>
    /\ UNCHANGED <<listed, otherThanPrune>>

\* startGarbageCollection: the POST and the test of its status
StartGC(st) ==
    /\ ppc = "gc"
    /\ gcCalls' = gcCalls + 1
    /\ gcStatus' = st
    /\ gcResult' = IF GcSucceeds(st) THEN "ok" ELSE "err"
    /\ ppc' = "idle"
    /\ UNCHANGED <<registry, exists, cycles, repos, ri, totalDeleted, tags, keepTags,
                   tagsToDelete, di, deleted, pruneErr, tagDeleteCalls,
                   repoDeleteCalls, tagsDeletedOk, reposDeletedOk, visited>>
    /\ UNCHANGED <<listed, otherThanPrune>>

NextPrune ==
    \/ StartPrune
    \/ ListReposOk
    \/ ListReposErr
    \/ ListTagsOk
    \/ ListTagsErr
    \/ \E st \in Responses : DeleteRepo(st)
    \/ \E st \in Responses : DeleteTag(st)
    \/ PruneReturn
    \/ Finish
    \/ \E st \in Responses : StartGC(st)

\* one repository, any tags
SpecRetention == InitRetention /\ [][NextPrune]_vars

\* several repositories, sample tags
SpecPrune == InitPrune /\ [][NextPrune]_vars

(***************************************************************************)
(* Properties of the pruner.  The retention decision is read where         *)
(* pruneRepository has returned (ppc = "returned"), before Prune goes on.  *)
(***************************************************************************)

Names(S) == {t.Tag : t \in S}

SemverNames == Names({t \in tags : IsSemver(t)})

OtherNames == Names({t \in tags : IsOther(t)})

LatestName == <<"l", "a", "t", "e", "s", "t">>

\* the tags deleteTag was called for by the current pruneRepository
Called == {tagDeleteCalls[i] : i \in 1..Len(tagDeleteCalls)}

\* deleteTag was called at most once per tag
CalledOnce == Cardinality(Called) = Len(tagDeleteCalls)

\* pruneRepository has listed a non-empty repository and returned without error
Pruned == ppc = "returned" /\ listed /\ ~pruneErr /\ tags # {}

TagOf(name) == CHOOSE t \in tags : t.Tag = name

\* numeric order of two semver tag names by (major, minor, patch)
RankAtLeast(a, b) ==
    LET x == SemVerOf(TagOf(a))
        y == SemVerOf(TagOf(b))
    IN  \/ x.Major > y.Major
        \/ x.Major = y.Major /\ x.Minor > y.Minor
        \/ x.Major = y.Major /\ x.Minor = y.Minor /\ x.Patch >= y.Patch

ExampleSemver ==
    { <<"l", "a", "t", "e", "s", "t">>,
      <<"v", "2", ".", "0", ".", "0">>,
      <<"v", "1", ".", "9", ".", "0">>,
      <<"v", "1", ".", "8", ".", "0">>,
      <<"v", "1", ".", "7", ".", "0">> }

ExampleBuilds ==
    { <<"b", "u", "i", "l", "d", "-", "1", "0", "0">>,
      <<"b", "u", "i", "l", "d", "-", "9", "9">>,
      <<"b", "u", "i", "l", "d", "-", "9", "8">>,
      <<"b", "u", "i", "l", "d", "-", "9", "7">> }

\* C5: retention with semver tags. For a repository whose tags include
\* latest and more than keepVersions semver tags, pruneRepository keeps
\* exactly latest plus keepVersions semver tags, none of them ranking below a
\* semver tag it does not keep, and calls deleteTag once for exactly the other
\* semver tags; {latest, v2.0.0, v1.9.0, v1.8.0, v1.7.0} deletes {v1.7.0}.
C5_RetentionSemver ==
    (Pruned /\ LatestName \in Names(tags) /\ Cardinality(SemverNames) > keepVersions)
        => /\ LatestName \in keepTags
           /\ keepTags \ {LatestName} \subseteq SemverNames
           /\ Cardinality(keepTags \ {LatestName}) = keepVersions
           /\ \A k \in keepTags \ {LatestName} :
                 \A d \in SemverNames \ keepTags : RankAtLeast(k, d)
           /\ Called = SemverNames \ keepTags
           /\ CalledOnce
           /\ (Names(tags) = ExampleSemver =>
                 /\ keepTags = ExampleSemver \ {<<"v", "1", ".", "7", ".", "0">>}
                 /\ Called = {<<"v", "1", ".", "7", ".", "0">>})

\* C5 witness: the example repository has been pruned
C5_Witness ==
    /\ Pruned
    /\ Names(tags) = ExampleSemver
    /\ tagDeleteCalls = << <<"v", "1", ".", "7", ".", "0">> >>

\* C6: fallback to recency. For a repository without semver tags,
\* pruneRepository keeps keepVersions non-semver tags (all, if fewer), none
\* updated before a non-semver tag it does not keep, and calls deleteTag once
\* for exactly the other non-semver tags; build-100 (t=5), build-99 (t=4),
\* build-98 (t=3), build-97 (t=2) deletes exactly build-97.
C6_FallbackRecency ==
    (Pruned /\ SemverNames = {})
        => /\ keepTags \ {LatestName} \subseteq OtherNames
           /\ Cardinality(keepTags \ {LatestName}) = Min(keepVersions, Cardinality(OtherNames))
           /\ \A k \in keepTags \ {LatestName} :
                 \A d \in OtherNames \ keepTags :
                    TagOf(k).UpdatedAt >= TagOf(d).UpdatedAt
           /\ Called = OtherNames \ keepTags
           /\ CalledOnce
           /\ (Names(tags) = ExampleBuilds =>
                 Called = {<<"b", "u", "i", "l", "d", "-", "9", "7">>})

\* C6 witness: the example repository has been pruned
C6_Witness ==
    /\ Pruned
    /\ Names(tags) = ExampleBuilds
    /\ tagDeleteCalls = << <<"b", "u", "i", "l", "d", "-", "9", "7">> >>

\* C7 as claimed: for every repository with at least one tag, deleteTag is
\* called for every tag that is not in the keep set.
C7_DeleteIsComplement ==
    Pruned => Called = Names(tags) \ keepTags

\* C7 as amended: deleteTag is called for exactly the semver tags outside the
\* keep set and, only when the repository has no semver tag, for the
\* non-semver tags outside the keep set; when a semver tag is present the
\* non-semver tags are neither kept nor deleted, and latest is never deleted.
C7_DeleteSetAmended ==
    Pruned
        => /\ Called = (SemverNames \ keepTags)
                          \cup (IF SemverNames = {} THEN OtherNames \ keepTags ELSE {})
           /\ SemverNames # {} => (OtherNames \cap (Called \cup keepTags)) = {}
           /\ LatestName \notin Called

\* C7 witness: a repository with semver and non-semver tags was pruned, an
\* old semver tag deleted and the non-semver tags left alone
C7_Witness ==
    /\ Pruned
    /\ Called # {}
    /\ SemverNames # {}
    /\ OtherNames # {}
    /\ OtherNames \cap (Called \cup keepTags) = {}

\* C8: when listTags returns zero tags, pruneRepository makes exactly one
\* deleteRepository call and no deleteTag call (and deleteRepository is
\* called for no other repository).
C8_EmptyRepository ==
    /\ (ppc = "returned" /\ listed /\ tags = {})
          => repoDeleteCalls = 1 /\ tagDeleteCalls = <<>>
    /\ (listed /\ tags # {}) => repoDeleteCalls = 0
    /\ ~listed => repoDeleteCalls = 0

\* C8 witness: an empty repository was deleted and pruneRepository returned 1
C8_Witness ==
    /\ ppc = "returned" /\ listed /\ tags = {}
    /\ ~pruneErr /\ deleted = 1
    /\ repos[ri] \notin exists

\* C9 as claimed: a cycle calls the garbage collection once if at least one
\* tag was deleted in it, and not at all if no tag was deleted.
C9_GcIffTagDeleted ==
    (ppc = "idle" /\ cycles > 0)
        => gcCalls = (IF tagsDeletedOk > 0 THEN 1 ELSE 0)

\* C9 as amended: a cycle calls the garbage collection exactly once, after
\* every repository has been processed, if at least one tag or one empty
\* repository was deleted in it, and not at all otherwise.
C9_GcOncePerCycle ==
    /\ gcCalls <= 1
    /\ ppc # "idle" => gcCalls = 0
    /\ ppc = "gc" => ri = Len(repos) + 1 /\ visited = repos
    /\ (ppc = "idle" /\ cycles > 0)
          => gcCalls = (IF tagsDeletedOk + reposDeletedOk > 0 THEN 1 ELSE 0)

\* C9 witness: a cycle over several repositories deleted tags in two of
\* them and called the garbage collection once
C9_Witness ==
    /\ ppc = "idle" /\ cycles > 0
    /\ Len(visited) >= 2
    /\ tagsDeletedOk >= 2
    /\ gcCalls = 1

\* C10: startGarbageCollection returns no error when the registry answers
\* 201 Created or 409 Conflict, and an error for every other status (and
\* when the request itself fails).
C10_GcStatus ==
    gcCalls > 0 =>
        (gcResult = "ok" <=> gcStatus \in {201, 409})

\* C10 witness: the registry answered 409 Conflict and the call succeeded
C10_Witness ==
    gcCalls > 0 /\ gcStatus = 409 /\ gcResult = "ok"

\* C11: failure isolation. In a Prune cycle the repositories visited are
\* exactly the repositories listRepositories returned, each once and in
\* order, whatever pruneRepository returned for the earlier ones; and a
\* pruneRepository that got its tags calls deleteTag for every tag of
\* tagsToDelete, whatever the earlier deleteTag calls returned.
C11_FailureIsolation ==
    /\ \A i, j \in 1..Len(repos) : repos[i] = repos[j] => i = j
    /\ ppc \in {"listTags", "deleteRepo", "deleteTags", "returned"} =>
          visited = SubSeq(repos, 1, ri)
    /\ ppc \in {"finish", "gc", "idle"} => visited = repos
    /\ ppc = "deleteTags" => tagDeleteCalls = SubSeq(tagsToDelete, 1, di - 1)
    /\ (ppc = "returned" /\ listed /\ tags # {}) => tagDeleteCalls = tagsToDelete

\* C11 witness: the first repository failed (it has no tags and is still in
\* the registry), the second was visited all the same, and there the first
\* deleteTag failed and the second was made and succeeded
C11_Witness ==
    /\ ppc = "returned"
    /\ ri = 2
    /\ repos[1] \in exists /\ registry[repos[1]] = {}
    /\ Len(tagDeleteCalls) = 2
    /\ tagDeleteCalls[1] \in Names(registry[repos[2]])
    /\ tagDeleteCalls[2] \notin Names(registry[repos[2]])

\* the tags pruneRepository decided to delete
ToDelete == {tagsToDelete[i] : i \in 1..Len(tagsToDelete)}

\* C31: classification and decision sets. Every tag of a pruned repository
\* is in exactly one of the categories latest, semver (1.9.0 and v1.9.0
\* match, v1.7 does not) and non-semver; the keep set and the delete set are
\* disjoint subsets of the repository's tags; apart from latest the keep set
\* holds at most keepVersions semver tags or, when there is no semver tag,
\* at most keepVersions non-semver tags; v1.10.0 ranks above v1.9.0; and
\* latest is never in the delete set.
C31_ClassificationPartition ==
    Pruned =>
        /\ \A t \in tags :
              /\ (t.Tag = LatestName) \/ IsSemver(t) \/ IsOther(t)
              /\ ~((t.Tag = LatestName) /\ IsSemver(t))
              /\ ~((t.Tag = LatestName) /\ IsOther(t))
              /\ ~(IsSemver(t) /\ IsOther(t))
        /\ <<"1", ".", "9", ".", "0">> \in Names(tags) =>
              <<"1", ".", "9", ".", "0">> \in SemverNames
        /\ <<"v", "1", ".", "9", ".", "0">> \in Names(tags) =>
              <<"v", "1", ".", "9", ".", "0">> \in SemverNames
        /\ <<"v", "1", ".", "7">> \in Names(tags) =>
              <<"v", "1", ".", "7">> \in OtherNames
        /\ keepTags \subseteq Names(tags)
        /\ ToDelete \subseteq Names(tags)
        /\ keepTags \cap ToDelete = {}
        /\ \/ /\ keepTags \ {LatestName} \subseteq SemverNames
              /\ Cardinality(keepTags \ {LatestName}) <= keepVersions
           \/ /\ SemverNames = {}
              /\ keepTags \ {LatestName} \subseteq OtherNames
              /\ Cardinality(keepTags \ {LatestName}) <= keepVersions
        /\ ({<<"v", "1", ".", "1", "0", ".", "0">>,
              <<"v", "1", ".", "9", ".", "0">>} \subseteq Names(tags)
             /\ <<"v", "1", ".", "9", ".", "0">> \in keepTags)
               => <<"v", "1", ".", "1", "0", ".", "0">> \in keepTags
        /\ LatestName \notin ToDelete

\* C31 witness: a repository with latest, semver and non-semver tags was
\* pruned, v1.10.0 was kept and v1.9.0 was put in the delete set
C31_Witness ==
    /\ Pruned
    /\ {LatestName, <<"v", "1", ".", "7">>} \subseteq Names(tags)
    /\ <<"v", "1", ".", "1", "0", ".", "0">> \in keepTags
    /\ <<"v", "1", ".", "9", ".", "0">> \in ToDelete

\* C33: a failed repository listing ends the cycle with no effect. The
\* step of Prune after listRepositories that does not enter the loop over
\* the repositories is its return: the cycle has listed no tags, deleted no
\* tag and no repository and started no garbage collection, registry and
\* repositories are as they were, and the pruner is idle again, waiting for
\* the next tick.
C33_FailedListingNoEffect ==
    [][(ppc = "listRepos" /\ ppc' \notin {"listTags", "finish"}) =>
          /\ ppc' = "idle"
          /\ visited' = <<>> /\ ~listed'
          /\ tagDeleteCalls' = <<>> /\ tagsDeletedOk' = 0
          /\ repoDeleteCalls' = 0 /\ reposDeletedOk' = 0
          /\ gcCalls' = 0 /\ gcResult' = "none"
          /\ registry' = registry /\ exists' = exists
          /\ cycles' = cycles]_vars

\* C33 witness: the first cycle is over, and the registry still holding
\* every repository, it listed none of them: its listing failed
C33_Witness ==
    /\ ppc = "idle"
    /\ cycles = 1
    /\ exists = Repos
    /\ repos = <<>>
    /\ visited = <<>>
    /\ gcCalls = 0


(***************************************************************************)
(* DNS client: CloudflareClient.EnsureCNAME.  Names and targets are        *)
(* sequences of pieces, "https://a.app" being <<"https://", "a.app">>.     *)
(* One step per HTTP call.  The zone is the DNS provider's: a create may   *)
(* be applied or refused, and a call may fail after it was applied.        *)
(***************************************************************************)
ZoneSuffix == <<".lightspeed.ee">>

\* strings.HasSuffix
HasSuffix(str, suffix) ==
    Len(str) >= Len(suffix) /\ SubSeq(str, Len(str) - Len(suffix) + 1, Len(str)) = suffix

\* fullName
FullNameOf(subdomain) ==
    IF HasSuffix(subdomain, ZoneSuffix) THEN subdomain ELSE subdomain \o ZoneSuffix

\* a stripping that knows https:// only
StripSchemeHttpsOnly(target) == TrimPrefix(target, <<"https://">>)

\* target without its scheme
StripScheme(target) == TrimPrefix(TrimPrefix(target, <<"https://">>), <<"http://">>)

\* the arguments of the model's calls
Subdomains == { <<"foo">>, <<"foo", ".lightspeed.ee">>, <<"bar">> }

IngressTargets ==
    { <<"a.app">>, <<"https://", "a.app">>, <<"http://", "a.app">>, <<"https://", "b.app">> }

\* the goroutine of DNSSyncWorker
DnsWorker == 1

\* the call of c returns res after `w` create/update calls by `method`
DnsReturn(c, res, method, w) ==
    /\ dns' = [dns EXCEPT ![c].pc = "done", ![c].result = res, ![c].method = method,
                          ![c].writes = w]
    /\ last' = [subdomain |-> dns[c].subdomain, rawTarget |-> dns[c].rawTarget,
                result |-> res, writes |-> w]

\* EnsureCNAME is called: fullName and target are computed, findDNSRecord entered
EnsureCall(c, subdomain, target) ==
    /\ dns[c].pc \in {"idle", "done"}
    /\ dnsStarted < MaxDnsCalls
    /\ dnsStarted' = dnsStarted + 1
    /\ dns' = [dns EXCEPT ![c] =
          [NoCall EXCEPT !.pc = "zone", !.subdomain = subdomain, !.rawTarget = target,
                         !.fullName = FullNameOf(subdomain),
                         !.target = StripScheme(target), !.prev = last]]
    /\ UNCHANGED <<zone, zoneID, posts, last>>

\* a call of EnsureCNAME by itself
EnsureStart(c, subdomain, target) ==
    /\ EnsureCall(c, subdomain, target)
    /\ UNCHANGED otherThanDns

\* getZoneID is entered: the stored id is returned, or, c.zoneID being
\* empty, the request of the zone lookup is built
GetZoneID(c) ==
    /\ dns[c].pc = "zone"
    /\ dns' = [dns EXCEPT ![c].pc = IF zoneID THEN "find" ELSE "lookup",
                          ![c].lookup = IF zoneID THEN "cached" ELSE "none"]
    /\ UNCHANGED <<zone, zoneID, dnsStarted, posts, last>>
    /\ UNCHANGED otherThanDns

\* getZoneID: the zone lookup is sent, succeeds and its id is stored
GetZoneOk(c) ==
    /\ dns[c].pc = "lookup"
    /\ zoneID' = TRUE
    /\ dns' = [dns EXCEPT ![c].pc = "find",
                          ![c].lookup = IF zoneID THEN "late" ELSE "sent"]
    /\ UNCHANGED <<zone, dnsStarted, posts, last>>
    /\ UNCHANGED otherThanDns

\* getZoneID: the zone lookup is sent and fails; nothing is stored
GetZoneErr(c) ==
    /\ dns[c].pc = "lookup"
    /\ DnsReturn(c, "err", "none", 0)
    /\ UNCHANGED <<zone, zoneID, dnsStarted, posts>>
    /\ UNCHANGED otherThanDns

\* the records the provider lists for a name
RecordsNamed(name) == {r \in zone : r.name = name}

\* an EnsureCNAME that writes the record whatever its content
AfterFindAlwaysWrites(c, r) ==
    /\ dns' = [dns EXCEPT ![c].pc = IF r # NoRecord THEN "put" ELSE "post",
                          ![c].existing = r, ![c].zone0 = zone]
    /\ UNCHANGED last

\* what EnsureCNAME does with what findDNSRecord returned
AfterFind(c, r) ==
    IF r # NoRecord /\ r.content = dns[c].target
    THEN /\ dns' = [dns EXCEPT ![c].pc = "done", ![c].result = "ok",
                               ![c].existing = r, ![c].zone0 = zone]
         /\ last' = [subdomain |-> dns[c].subdomain, rawTarget |-> dns[c].rawTarget,
                     result |-> "ok", writes |-> 0]
    ELSE /\ dns' = [dns EXCEPT ![c].pc = IF r # NoRecord THEN "put" ELSE "post",
                               ![c].existing = r, ![c].zone0 = zone]
         /\ UNCHANGED last

\* findDNSRecord's GET succeeds: nil when the provider lists no record of the
\* name, else the first record listed; then the second getZoneID, which finds
\* the id the first one cached, and the comparison with target
FindOk(c) ==
    /\ dns[c].pc = "find"
    /\ \E r \in RecordsNamed(dns[c].fullName) \cup {NoRecord} :
          /\ r = NoRecord <=> RecordsNamed(dns[c].fullName) = {}
          /\ AfterFind(c, r)
    /\ UNCHANGED <<zone, zoneID, dnsStarted, posts>>
    /\ UNCHANGED otherThanDns

\* findDNSRecord's GET fails
FindErr(c) ==
    /\ dns[c].pc = "find"
    /\ DnsReturn(c, "err", "none", 0)
    /\ UNCHANGED <<zone, zoneID, dnsStarted, posts>>
    /\ UNCHANGED otherThanDns

\* the create call: the provider applies it or not, and the answer is a
\* success only if it did
Post(c, applied, success) ==
    /\ dns[c].pc = "post"
    /\ success => applied
    /\ posts' = Append(posts, [name |-> dns[c].fullName,
                                held |-> RecordsNamed(dns[c].fullName) # {}])
    /\ zone' = IF applied
                 THEN zone \cup {[id |-> Len(posts) + 1, name |-> dns[c].fullName,
                                  content |-> dns[c].target]}
                 ELSE zone
    /\ DnsReturn(c, IF success THEN "ok" ELSE "err", "POST", 1)
    /\ UNCHANGED <<zoneID, dnsStarted>>
    /\ UNCHANGED otherThanDns

\* the update call on existing.ID
Put(c, applied, success) ==
    /\ dns[c].pc = "put"
    /\ success => applied
    /\ applied => \E r \in zone : r.id = dns[c].existing.id
    /\ zone' = IF applied
                 THEN {IF r.id = dns[c].existing.id
                         THEN [r EXCEPT !.name = dns[c].fullName,
                                        !.content = dns[c].target]
                         ELSE r : r \in zone}
                 ELSE zone
    /\ DnsReturn(c, IF success THEN "ok" ELSE "err", "PUT", 1)
    /\ UNCHANGED <<zoneID, dnsStarted, posts>>
    /\ UNCHANGED otherThanDns

\* the operator before its first DNS scan
InitDns == CredsAtRest /\ PrunerAtRest /\ ProxyAtRest /\ DnsAtRest /\ OpsAtRest

\* the DNS scans of DNSSyncWorker: one EnsureCNAME call after the other
NextDns ==
    \/ \E subdomain \in Subdomains, target \in IngressTargets :
          EnsureStart(DnsWorker, subdomain, target)
    \/ GetZoneID(DnsWorker)
    \/ GetZoneOk(DnsWorker)
    \/ GetZoneErr(DnsWorker)
    \/ FindOk(DnsWorker)
    \/ FindErr(DnsWorker)
    \/ \E applied, success \in BOOLEAN : Post(DnsWorker, applied, success)
    \/ \E applied, success \in BOOLEAN : Put(DnsWorker, applied, success)

SpecDns == InitDns /\ [][NextDns]_vars

\* the same scans with EnsureCNAME also called from other goroutines
NextDnsRace ==
    \E c \in DnsCallers :
        \/ \E subdomain \in Subdomains, target \in IngressTargets :
              EnsureStart(c, subdomain, target)
        \/ GetZoneID(c)
        \/ GetZoneOk(c)
        \/ GetZoneErr(c)
        \/ FindOk(c)
        \/ FindErr(c)
        \/ \E applied, success \in BOOLEAN : Post(c, applied, success)
        \/ \E applied, success \in BOOLEAN : Put(c, applied, success)

SpecDnsRace == InitDns /\ [][NextDnsRace]_vars

(***************************************************************************)
(* Properties of the DNS client.                                           *)
(***************************************************************************)

\* the call of c follows a successful call with the same arguments
RepeatsLast(c) ==
    /\ dns[c].pc # "idle"
    /\ dns[c].prev.result = "ok"
    /\ dns[c].prev.subdomain = dns[c].subdomain
    /\ dns[c].prev.rawTarget = dns[c].rawTarget

\* C12: EnsureCNAME is idempotent. A call that follows a successful call
\* with the same arguments, the zone untouched in between, issues no create
\* and no update call, so that the two calls issue at most one in total.
C12_Idempotent ==
    RepeatsLast(DnsWorker) =>
        /\ dns[DnsWorker].pc \notin {"post", "put"}
        /\ dns[DnsWorker].writes = 0
        /\ dns[DnsWorker].method = "none"
        /\ dns[DnsWorker].prev.writes + dns[DnsWorker].writes <= 1

\* C12 witness: a call created the record and the same call made again
\* returned success
C12_Witness ==
    /\ RepeatsLast(DnsWorker)
    /\ dns[DnsWorker].prev.writes = 1
    /\ dns[DnsWorker].pc = "done"
    /\ dns[DnsWorker].result = "ok"

Schemes == {"https://", "http://"}

\* C13: EnsureCNAME strips the scheme of target, looks the record up by the
\* fully-qualified name, and then creates it when the zone has no record of
\* that name, updates the record found when its content differs from the
\* target, and does nothing when it is equal; after a successful call the
\* zone's record of that name has the stripped target as content.
C13_EnsureOutcome ==
    LET d == dns[DnsWorker]
        found == {r \in d.zone0 : r.name = d.fullName}
    IN  d.pc # "idle" =>
          /\ d.rawTarget \in {d.target} \cup {<<sch>> \o d.target : sch \in Schemes}
          /\ d.target # <<>> /\ d.target[1] \notin Schemes
          /\ d.fullName \in {d.subdomain, d.subdomain \o ZoneSuffix}
          /\ HasSuffix(d.fullName, ZoneSuffix)
          /\ d.writes <= 1
          /\ (d.pc = "post" \/ d.method = "POST") => found = {}
          /\ (d.pc = "put" \/ d.method = "PUT") =>
                /\ d.existing \in found
                /\ d.existing.content # d.target
          /\ (d.pc = "done" /\ d.result = "ok" /\ d.method = "none") =>
                /\ d.existing \in found
                /\ d.existing.content = d.target
                /\ d.writes = 0
          /\ (d.pc = "done" /\ d.result = "ok") =>
                /\ RecordsNamed(d.fullName) # {}
                /\ \A r \in RecordsNamed(d.fullName) : r.content = d.target
          /\ (d.pc = "done" /\ d.result = "ok" /\ d.method = "PUT") =>
                \E r \in zone : r.id = d.existing.id /\ r.content = d.target

\* C13 witness: a call with an http:// target updated a record that held
\* another content
C13_Witness ==
    /\ dns[DnsWorker].pc = "done"
    /\ dns[DnsWorker].result = "ok"
    /\ dns[DnsWorker].method = "PUT"
    /\ dns[DnsWorker].rawTarget = <<"http://", "a.app">>
    /\ dns[DnsWorker].existing.content = <<"b.app">>
    /\ \E r \in zone : r.name = <<"foo", ".lightspeed.ee">> /\ r.content = <<"a.app">>

\* C14: no double creation. Whatever the interleaving of the EnsureCNAME
\* calls, the zone never holds two records of the same name and no second
\* create call is issued for a name. A create call made again after one the
\* provider did not apply is left aside: the second create call meant is one
\* issued for a name of which the zone holds a record.
C14_NoDoubleCreate ==
    /\ \A i \in 1..Len(posts) : ~posts[i].held
    /\ \A r1, r2 \in zone : r1.name = r2.name => r1 = r2

\* C34: zone identifier caching. Once a zone lookup has succeeded and its
\* id is stored, no further zone lookup is sent, also when EnsureCNAME is
\* called from several goroutines: no call gets the id by a lookup that was
\* sent while an id was stored.
C34_LookupOnce == \A c \in DnsCallers : dns[c].lookup # "late"


(***************************************************************************)
(* Sites handler: SitesHandler.ServeHTTP, one request at a time (the       *)
(* handler keeps nothing between requests), one step per call to the       *)
(* platform.  The platform and the registry are the environment: what      *)
(* each call is answered is an input of the step.                          *)
(***************************************************************************)

\* maxRetries of waitForTag
MaxRetries == 5

\* retryDelay of waitForTag, in seconds
RetryDelaySeconds == 2

\* the bodies of the model's create requests
CreateBodies ==
    { [json |-> FALSE, name |-> "", image |-> "", tag |-> ""],
      [json |-> TRUE, name |-> "", image |-> "img", tag |-> "v1"],
      [json |-> TRUE, name |-> "app1", image |-> "", tag |-> ""],
      [json |-> TRUE, name |-> "app1", image |-> "img", tag |-> "v1"] }

\* what the tag listing of the registry is answered: status 0 is a
\* transport error
TagResponses ==
    { [status |-> 0, tags |-> {}],
      [status |-> StatusUnauthorized, tags |-> {}],
      [status |-> StatusOK, tags |-> {"old"}],
      [status |-> StatusOK, tags |-> {"old", "latest"}],
      [status |-> StatusOK, tags |-> {"old", "v1"}] }

\* what GET /apps is answered
AppResponses ==
    { [status |-> 0, apps |-> <<>>],
      [status |-> StatusUnauthorized, apps |-> <<>>],
      [status |-> StatusOK, apps |-> <<>>],
      [status |-> StatusOK, apps |-> <<[id |-> "id2", name |-> "app2"]>>],
      [status |-> StatusOK, apps |-> <<[id |-> "id2", name |-> "app2"],
                                       [id |-> "id1", name |-> "app1"]>>],
      [status |-> StatusOK, apps |-> <<[id |-> "id1", name |-> "app1"],
                                       [id |-> "id3", name |-> "app1"]>>] }

\* the operations of the model's requests on one site
NameOps == {"get", "delete", "deploy"}

\* a call to the platform
PlatformCall(method, path, id, repository, tag) ==
    [method |-> method, path |-> path, id |-> id, repository |-> repository, tag |-> tag]

\* tagExists: the listing was answered 200 and holds the tag
tagExists(resp, tag) == resp.status = StatusOK /\ tag \in resp.tags

\* a createSite that takes image and tag as they come
createSiteNoDefaults(body) ==
    IF ~body.json \/ body.name = ""
    THEN [NoSite EXCEPT !.pc = "done", !.op = "create", !.body = body,
                        !.status = StatusBadRequest]
    ELSE [NoSite EXCEPT !.pc = "waitForTag", !.op = "create",
                        !.body = body, !.name = body.name,
                        !.image = body.image, !.tag = body.tag]

\* POST /sites, createSite up to waitForTag: the body is decoded, the name
\* required, image and tag defaulted
createSite(body) ==
    IF ~body.json \/ body.name = ""
    THEN [NoSite EXCEPT !.pc = "done", !.op = "create", !.body = body,
                        !.status = StatusBadRequest]
    ELSE [NoSite EXCEPT !.pc = "waitForTag", !.op = "create",
                        !.body = body, !.name = body.name,
                        !.image = IF body.image = "" THEN body.name
                                  ELSE body.image,
                        !.tag = IF body.tag = "" THEN "latest"
                                ELSE body.tag]

\* a waitForTag that gives up after the first check
waitForTagOnce(resp) ==
    /\ site.pc = "waitForTag"
    /\ site' = [site EXCEPT
          !.checks = Append(@, resp),
          !.calls = Append(@, PlatformCall("GET", "tags", "", site.image, "")),
          !.pc = IF tagExists(resp, site.tag) THEN "create" ELSE "done",
          !.status = IF tagExists(resp, site.tag) THEN @ ELSE StatusNotFound]
    /\ UNCHANGED otherThanSite

\* a waitForTag that sleeps after every attempt that did not show the tag
waitForTagSleepsLast(resp) ==
    /\ site.pc = "waitForTag"
    /\ site' = [site EXCEPT
          !.checks = Append(@, resp),
          !.calls = Append(@, PlatformCall("GET", "tags", "", site.image, "")),
          !.pc = IF tagExists(resp, site.tag) THEN "create"
                 ELSE IF Len(site.checks) + 1 < MaxRetries THEN "waitForTag"
                 ELSE "done",
          !.slept = IF ~tagExists(resp, site.tag) THEN @ + RetryDelaySeconds ELSE @,
          !.status = IF ~tagExists(resp, site.tag) /\ Len(site.checks) + 1 >= MaxRetries
                     THEN StatusNotFound ELSE @]
    /\ UNCHANGED otherThanSite

\* one attempt of waitForTag: tagExists lists the tags of the repository
\* (an error of it is logged and the attempt is used up); createSite goes
\* on when the tag is there; else the loop sleeps retryDelay before the
\* next attempt, and after the last attempt createSite answers 404
waitForTag(resp) ==
    /\ site.pc = "waitForTag"
    /\ site' = [site EXCEPT
          !.checks = Append(@, resp),
          !.calls = Append(@, PlatformCall("GET", "tags", "", site.image, "")),
          !.pc = IF tagExists(resp, site.tag) THEN "create"
                 ELSE IF Len(site.checks) + 1 < MaxRetries THEN "waitForTag"
                 ELSE "done",
          !.slept = IF ~tagExists(resp, site.tag) /\ Len(site.checks) + 1 < MaxRetries
                    THEN @ + RetryDelaySeconds ELSE @,
          !.status = IF ~tagExists(resp, site.tag) /\ Len(site.checks) + 1 >= MaxRetries
                     THEN StatusNotFound ELSE @]
    /\ UNCHANGED otherThanSite

\* createSite: POST /apps with the spec, and the answer to the client
postApp(st, parsed) ==
    /\ site.pc = "create"
    /\ site' = [site EXCEPT
          !.pc = "done",
          !.calls = Append(@, PlatformCall("POST", "/apps", "", site.image, site.tag)),
          !.answer = [status |-> st, parsed |-> parsed],
          !.status = IF st = 0 THEN StatusBadGateway
                     ELSE IF st \notin {StatusOK, StatusCreated} THEN st
                     ELSE IF ~parsed THEN StatusInternalServerError
                     ELSE StatusCreated]
    /\ UNCHANGED otherThanSite

\* getSite, deleteSite or deploySite is entered with the name ServeHTTP
\* took from the path
nameRequest(op, name) ==
    [NoSite EXCEPT !.pc = "findAppByName", !.op = op, !.name = name]

\* a lookup that takes the first application listed
FirstListed(apps, name) == IF apps = <<>> THEN "" ELSE apps[1].id

\* the loop of findAppByName: the id of the first application of that name,
\* "" when there is none
FirstNamed(apps, name) ==
    IF \E i \in 1..Len(apps) : apps[i].name = name
    THEN apps[CHOOSE i \in 1..Len(apps) :
                 /\ apps[i].name = name
                 /\ \A j \in 1..(i - 1) : apps[j].name # name].id
    ELSE ""

\* findAppByName: GET /apps; an error is answered 502, no match 404
findAppByName(resp) ==
    /\ site.pc = "findAppByName"
    /\ LET appID == IF resp.status = StatusOK THEN FirstNamed(resp.apps, site.name)
                    ELSE ""
       IN  site' = [site EXCEPT
              !.calls = Append(@, PlatformCall("GET", "/apps", "", "", "")),
              !.listing = resp,
              !.appID = appID,
              !.pc = IF resp.status = StatusOK /\ appID # "" THEN "app" ELSE "done",
              !.status = IF resp.status # StatusOK THEN StatusBadGateway
                         ELSE IF appID = "" THEN StatusNotFound
                         ELSE @]
    /\ UNCHANGED otherThanSite

\* the call on /apps/appID of getSite, deleteSite or deploySite, and the
\* answer to the client
appCall(st, parsed) ==
    /\ site.pc = "app"
    /\ LET method == CASE site.op = "get" -> "GET"
                       [] site.op = "delete" -> "DELETE"
                       [] OTHER -> "POST"
           path == IF site.op = "deploy" THEN "/apps/id/deployments" ELSE "/apps/id"
           good == CASE site.op = "get" -> {StatusOK}
                     [] site.op = "delete" -> {StatusOK, StatusNoContent}
                     [] OTHER -> {StatusOK, StatusCreated}
           success == CASE site.op = "get" -> StatusOK
                        [] site.op = "delete" -> StatusNoContent
                        [] OTHER -> StatusCreated
       IN  site' = [site EXCEPT
              !.pc = "done",
              !.calls = Append(@, PlatformCall(method, path, site.appID, "", "")),
              !.answer = [status |-> st, parsed |-> parsed],
              !.status = IF st = 0 THEN StatusBadGateway
                         ELSE IF st \notin good THEN st
                         ELSE IF site.op # "delete" /\ ~parsed
                              THEN StatusInternalServerError
                         ELSE success]
    /\ UNCHANGED otherThanSite

\* listSites: GET /apps, and the answer to the client
listSites(resp, parsed) ==
    /\ site.pc = "listSites"
    /\ site' = [site EXCEPT
          !.pc = "done",
          !.calls = Append(@, PlatformCall("GET", "/apps", "", "", "")),
          !.listing = resp,
          !.status = IF resp.status = 0 THEN StatusBadGateway
                     ELSE IF resp.status # StatusOK THEN resp.status
                     ELSE IF ~parsed THEN StatusInternalServerError
                     ELSE StatusOK]
    /\ UNCHANGED otherThanSite

\* the methods of the model's requests
SiteMethods == {"GET", "POST", "DELETE", "PUT"}

\* the paths of the model's requests, as they are after
\* strings.TrimPrefix(strings.TrimPrefix(r.URL.Path, "/sites"), "/")
SitePaths == {"", "app1", "app2", "app1/deploy"}

\* strings.HasSuffix(path, "/deploy") on the paths of the model
HasSuffixDeploy(path) == path = "app1/deploy"

\* strings.TrimSuffix(path, "/deploy") on the paths of the model
TrimSuffixDeploy(path) == IF path = "app1/deploy" THEN "app1" ELSE path

\* the handler the switch of ServeHTTP picks, its cases taken in order
RouteOf(method, path) ==
    IF path = "" /\ method = "GET" THEN "list"
    ELSE IF path = "" /\ method = "POST" THEN "create"
    ELSE IF method = "GET" THEN "get"
    ELSE IF method = "DELETE" THEN "delete"
    ELSE IF HasSuffixDeploy(path) /\ method = "POST" THEN "deploy"
    ELSE "none"

\* SitesHandler.ServeHTTP: the request is routed to its handler, which is
\* entered, or answered 405
SitesServeHTTP(method, path, body) ==
    /\ site.pc \in {"idle", "done"}
    /\ LET op == RouteOf(method, path)
           entered ==
               CASE op = "list" -> [NoSite EXCEPT !.pc = "listSites", !.op = "list"]
                 [] op = "create" -> createSite(body)
                 [] op = "deploy" -> nameRequest(op, TrimSuffixDeploy(path))
                 [] op \in {"get", "delete"} -> nameRequest(op, path)
                 [] OTHER -> [NoSite EXCEPT !.pc = "done",
                                            !.status = StatusMethodNotAllowed]
       IN  site' = [entered EXCEPT !.method = method, !.path = path]
    /\ UNCHANGED otherThanSite

\* the operator before its first request on /sites
InitSites == CredsAtRest /\ PrunerAtRest /\ ProxyAtRest /\ DnsAtRest /\ OpsAtRest

NextSites ==
    \/ \E method \in SiteMethods, path \in SitePaths, body \in CreateBodies :
          SitesServeHTTP(method, path, body)
    \/ \E resp \in AppResponses, parsed \in BOOLEAN : listSites(resp, parsed)
    \/ \E resp \in TagResponses : waitForTag(resp)
    \/ \E st \in Responses, parsed \in BOOLEAN : postApp(st, parsed)
    \/ \E resp \in AppResponses : findAppByName(resp)
    \/ \E st \in Responses, parsed \in BOOLEAN : appCall(st, parsed)

SpecSites == InitSites /\ [][NextSites]_vars

\* every tagExists call and every time.Sleep of waitForTag returns
SpecSitesLive == SpecSites /\ WF_vars(\E resp \in TagResponses : waitForTag(resp))

\* the tag was visible at the i-th check of the request
VisibleAt(i) == tagExists(site.checks[i], site.tag)

\* the calls of the request that create the application
CreateCalls == {i \in 1..Len(site.calls) : site.calls[i].path = "/apps"
                                           /\ site.calls[i].method = "POST"}

\* C21: site creation waits for propagation. createSite checks the tag at
\* most five times and stops at the first check that shows it. When the
\* k-th check is the first to show it, the k tag listings are followed by
\* the one create call, and Create answers 201 if the platform accepts it.
\* When none of five checks shows it, Create answers 404 and no create call
\* is sent.
C21_WaitsForPropagation ==
    (site.op = "create" /\ site.body.json /\ site.body.name # "") =>
        LET k == Len(site.checks) IN
        /\ k <= 5
        /\ \A i \in 1..(k - 1) : ~VisibleAt(i)
        /\ \A i \in 1..k : site.calls[i].path = "tags"
        /\ CreateCalls \subseteq {k + 1}
        /\ site.pc = "waitForTag" <=> (k < 5 /\ (k > 0 => ~VisibleAt(k)))
        /\ site.pc = "create" => (k > 0 /\ VisibleAt(k) /\ CreateCalls = {})
        /\ (site.pc = "done" /\ VisibleAt(k)) =>
              /\ CreateCalls = {k + 1}
              /\ Len(site.calls) = k + 1
              /\ (site.answer.status \in {StatusOK, StatusCreated} /\ site.answer.parsed)
                    => site.status = StatusCreated
        /\ (site.pc = "done" /\ ~VisibleAt(k)) =>
              /\ k = 5
              /\ site.status = StatusNotFound
              /\ CreateCalls = {}

\* C21 witness: the tag was absent at the first check, the second check
\* failed, the third showed it, and the site was created
C21_Witness ==
    /\ site.op = "create" /\ site.pc = "done"
    /\ Len(site.checks) = 3
    /\ site.checks[1].status = StatusOK /\ site.checks[2].status = 0
    /\ VisibleAt(3)
    /\ site.status = StatusCreated
    /\ site.calls[4].method = "POST"

\* C22: Create requires a name. A body that is not JSON, or has no name, is
\* answered 400 with no call to the tag listing or the platform; else the
\* tag is checked and the application created with the image and tag of the
\* body, the site name standing for an omitted image and "latest" for an
\* omitted tag.
C22_CreateRequiresName ==
    site.op = "create" =>
        IF ~site.body.json \/ site.body.name = ""
        THEN site.pc = "done" /\ site.status = StatusBadRequest /\ site.calls = <<>>
        ELSE LET image == IF site.body.image = "" THEN site.body.name
                          ELSE site.body.image
                 tag == IF site.body.tag = "" THEN "latest" ELSE site.body.tag
             IN  /\ site.status # StatusBadRequest
                 /\ \A i \in 1..Len(site.calls) :
                       /\ site.calls[i].repository = image
                       /\ site.calls[i].path = "/apps" => site.calls[i].tag = tag
                 /\ CreateCalls # {} => tag \in site.checks[Len(site.checks)].tags

\* C22 witness: a site was created from a body that names the site only
C22_Witness ==
    /\ site.op = "create" /\ site.pc = "done"
    /\ site.body.name = "app1" /\ site.body.image = "" /\ site.body.tag = ""
    /\ site.status = StatusCreated
    /\ site.calls[Len(site.calls)].repository = "app1"
    /\ site.calls[Len(site.calls)].tag = "latest"

\* the ids of the listed applications that have the requested name
Matching ==
    {site.listing.apps[i].id : i \in {j \in 1..Len(site.listing.apps) :
                                         site.listing.apps[j].name = site.name}}

\* C23: not found is 404 and free of side effects. For Get, Delete and
\* Deploy, when the listing holds no application of the requested name the
\* answer is 404 and the listing is the only call made; when it holds one,
\* the one call that follows is the get, delete or deployment call of the
\* operation, on the id of an application of that name.
C23_NotFound ==
    (site.op \in NameOps /\ site.listing.status = StatusOK) =>
        /\ Matching = {} =>
              /\ site.pc = "done" /\ site.status = StatusNotFound
              /\ Len(site.calls) = 1 /\ site.calls[1].id = ""
        /\ Matching # {} =>
              /\ site.status # StatusNotFound
              /\ Len(site.calls) <= 2
              /\ site.pc = "done" => Len(site.calls) = 2
              /\ Len(site.calls) = 2 =>
                    /\ site.calls[2].id \in Matching
                    /\ site.calls[2].method =
                          (CASE site.op = "get" -> "GET"
                             [] site.op = "delete" -> "DELETE"
                             [] site.op = "deploy" -> "POST")
                    /\ site.calls[2].path =
                          (IF site.op = "deploy" THEN "/apps/id/deployments"
                           ELSE "/apps/id")

\* C23 witness: a delete of app1 was sent to the application of that name,
\* listed second
C23_Witness ==
    /\ site.op = "delete" /\ site.pc = "done"
    /\ site.name = "app1"
    /\ Len(site.listing.apps) = 2 /\ site.listing.apps[1].name = "app2"
    /\ site.calls[2].id = "id1" /\ site.calls[2].method = "DELETE"
    /\ site.status = StatusNoContent

\* C25: a site created passes through the DNS client: by the time Create
\* has answered 201, EnsureCNAME was called.
C25_CreateEnsuresCNAME ==
    (site.op = "create" /\ site.status = StatusCreated) => dnsStarted > 0

\* waitForTag of the request has returned
TagWaited == site.op = "create" /\ site.checks # <<>> /\ site.pc # "waitForTag"

TableOf(method, path) ==
    CASE path = "" /\ method = "GET" -> "list"
      [] path = "" /\ method = "POST" -> "create"
      [] path \in {"app1", "app2"} /\ method = "GET" -> "get"
      [] path \in {"app1", "app2"} /\ method = "DELETE" -> "delete"
      [] path = "app1/deploy" /\ method = "POST" -> "deploy"
      [] OTHER -> "none"

\* C38: request routing follows the interface table. A request of the
\* table reaches its handler; every other combination of method and path is
\* answered 405 without a call to the platform API; and deploySite is
\* reached by POST only.
C38_RoutingTable ==
    site.pc # "idle" =>
        /\ site.op = TableOf(site.method, site.path)
        /\ TableOf(site.method, site.path) = "none" =>
              site.status = StatusMethodNotAllowed /\ site.calls = <<>>
        /\ site.op = "deploy" => site.method = "POST"



(***************************************************************************)
(* The scans of DNSSyncWorker: Start runs syncAllDNS, then the timer of    *)
(* run fires syncNewSitesDNS.  A scan lists the applications and calls     *)
(* EnsureCNAME, whose steps are those of the DNS client above, for the     *)
(* ones it reconciles.  Times are in minutes.                              *)
(***************************************************************************)

\* the window of syncNewSitesDNS
NewSitesMinutes == 10

\* what GET /apps is answered to a scan: listed is FALSE when the call or
\* the decoding fails
ScanResponses ==
    { [listed |-> FALSE, apps |-> <<>>],
      [listed |-> TRUE, apps |-> <<>>],
      [listed |-> TRUE,
       apps |-> << [name |-> <<"foo">>, ingress |-> <<"https://", "a.app">>, created |-> 15],
                   [name |-> <<"old">>, ingress |-> <<>>, created |-> 20],
                   [name |-> <<"bar">>, ingress |-> <<"a.app">>, created |-> 20] >>],
      [listed |-> TRUE,
       apps |-> << [name |-> <<"bar">>, ingress |-> <<"https://", "b.app">>, created |-> 20],
                   [name |-> <<"old">>, ingress |-> <<"https://", "b.app">>, created |-> 0],
                   [name |-> <<"foo">>, ingress |-> <<"a.app">>, created |-> 20] >>],
      [listed |-> TRUE,
       apps |-> << [name |-> <<"bar">>, ingress |-> <<"a.app">>, created |-> 20] >>] }

\* time.Now() of the model's scans
ScanTimes == {25, 30}

\* a scan that takes every application for a new one
ReconciledAnyAge(kind, app, at) == app.ingress # <<>>

\* the condition under which a scan calls EnsureCNAME for an application
Reconciled(kind, app, at) ==
    /\ app.ingress # <<>>
    /\ kind = "new" => app.created > at - NewSitesMinutes

\* Start (the first scan, syncAllDNS) or a tick of run (syncNewSitesDNS)
syncStart(at) ==
    /\ scan.pc \in {"idle", "done"}
    /\ scan.scans < MaxScans
    /\ scan' = [NoScan EXCEPT !.pc = "list", !.at = at, !.scans = scan.scans + 1,
                              !.kind = IF scan.scans = 0 THEN "all" ELSE "new"]
    /\ UNCHANGED dnsVars
    /\ UNCHANGED otherThanScan

\* GET /apps and the decoding of its answer
listApps(resp) ==
    /\ scan.pc = "list"
    /\ scan' = [scan EXCEPT !.pc = IF resp.listed THEN "loop" ELSE "done",
                            !.listed = resp.listed, !.apps = resp.apps, !.i = 1]
    /\ UNCHANGED dnsVars
    /\ UNCHANGED otherThanScan

\* what the scan has of the calls that returned
ResultsSoFar ==
    IF Len(scan.results) < Len(scan.ensured)
    THEN Append(scan.results, dns[DnsWorker].result)
    ELSE scan.results

\* one round of the loop over the applications, once the EnsureCNAME call
\* of the round before has returned
scanNext ==
    /\ scan.pc = "loop"
    /\ dns[DnsWorker].pc \in {"idle", "done"}
    /\ IF scan.i > Len(scan.apps)
         THEN /\ scan' = [scan EXCEPT !.pc = "done", !.results = ResultsSoFar]
              /\ UNCHANGED dnsVars
         ELSE IF Reconciled(scan.kind, scan.apps[scan.i], scan.at)
         THEN /\ EnsureCall(DnsWorker, scan.apps[scan.i].name, scan.apps[scan.i].ingress)
              /\ scan' = [scan EXCEPT !.i = @ + 1, !.results = ResultsSoFar,
                                      !.ensured = Append(@, scan.i)]
         ELSE /\ scan' = [scan EXCEPT !.i = @ + 1, !.results = ResultsSoFar]
              /\ UNCHANGED dnsVars
    /\ UNCHANGED otherThanScan

\* the operator before DNSSyncWorker.Start
InitDnsScan == CredsAtRest /\ PrunerAtRest /\ ProxyAtRest /\ DnsAtRest /\ OpsAtRest

NextDnsScan ==
    \/ \E at \in ScanTimes : syncStart(at)
    \/ \E resp \in ScanResponses : listApps(resp)
    \/ scanNext
    \/ GetZoneID(DnsWorker)
    \/ GetZoneOk(DnsWorker)
    \/ GetZoneErr(DnsWorker)
    \/ FindOk(DnsWorker)
    \/ FindErr(DnsWorker)
    \/ \E applied, success \in BOOLEAN : Post(DnsWorker, applied, success)
    \/ \E applied, success \in BOOLEAN : Put(DnsWorker, applied, success)

SpecDnsScan == InitDnsScan /\ [][NextDnsScan]_vars

\* the applications the loop of the scan has gone past
Passed == 1..(IF scan.pc = "done" THEN Len(scan.apps) ELSE scan.i - 1)

\* C26: DNS reconciliation scope. The scan at startup calls EnsureCNAME for
\* the listed applications that have an ingress target, and no other; a
\* scan on the timer for those that have one and were created less than 10
\* minutes before the scan, and no other; each once, in the order listed,
\* whatever the calls before returned.
C26_ReconcileScope ==
    (scan.pc \in {"loop", "done"} /\ scan.listed) =>
        /\ scan.scans = 1 <=> scan.kind = "all"
        /\ scan.scans > 1 <=> scan.kind = "new"
        /\ {scan.ensured[j] : j \in 1..Len(scan.ensured)} =
              {k \in Passed :
                  /\ scan.apps[k].ingress # <<>>
                  /\ scan.kind = "new" => scan.at - scan.apps[k].created < 10}
        /\ \A j \in 1..(Len(scan.ensured) - 1) : scan.ensured[j] < scan.ensured[j + 1]
        /\ scan.pc = "loop" => scan.i <= Len(scan.apps) + 1

\* C26 witness: a scan on the timer has gone through three applications;
\* it passed over the one created 25 minutes before and called EnsureCNAME
\* for the third after the call for the first had failed
C26_Witness ==
    /\ scan.pc = "done" /\ scan.kind = "new" /\ scan.at = 25
    /\ Len(scan.apps) = 3
    /\ scan.apps[2].created = 0 /\ scan.apps[2].ingress # <<>>
    /\ scan.ensured = <<1, 3>>
    /\ scan.results = <<"err", "ok">>

(***************************************************************************)
(* main of the operator: what it constructs and starts before it serves,   *)
(* and the goroutines of the pruner it started.                            *)
(***************************************************************************)

\* proxy.NewRegistryProxy, SetAuthToken, SetRegistryName: main exits when
\* the proxy cannot be made
mainProxy(ok) ==
    /\ boot.pc = "main"
    /\ boot' = [boot EXCEPT !.pc = IF ok THEN "sites" ELSE "exit", !.proxy = ok]
    /\ UNCHANGED <<credVars, pruneVars, proxyVars, dnsVars, site, scan, wait, sched, copy>>

\* api.NewSitesHandler and the routes of the mux
mainSites ==
    /\ boot.pc = "sites"
    /\ boot' = [boot EXCEPT !.pc = "pruner", !.sites = TRUE]
    /\ UNCHANGED <<credVars, pruneVars, proxyVars, dnsVars, site, scan, wait, sched, copy>>

\* registry.NewPruner and pruner.Start(), which starts the goroutines of
\* the first prune and of the daily ticker
mainPruner ==
    /\ boot.pc = "pruner"
    /\ boot' = [boot EXCEPT !.pc = "listen", !.pruner = TRUE]
    /\ UNCHANGED <<credVars, pruneVars, proxyVars, dnsVars, site, scan, wait, sched, copy>>

\* ensureTLSCerts when TLS is enabled, then ListenAndServe(TLS)
mainListen(tls, certs) ==
    /\ boot.pc = "listen"
    /\ boot' = [boot EXCEPT !.pc = IF tls /\ ~certs THEN "exit" ELSE "serving",
                            !.tls = tls]
    /\ UNCHANGED <<credVars, pruneVars, proxyVars, dnsVars, site, scan, wait, sched, copy>>

\* the operator process at its start, over a registry of MaxRepos repositories
InitMain == InitPrune

\* main, and the goroutines it has started for as long as the process lives
NextMain ==
    \/ \E ok \in BOOLEAN : mainProxy(ok)
    \/ mainSites
    \/ mainPruner
    \/ \E tls, certs \in BOOLEAN : mainListen(tls, certs)
    \/ (boot.pruner /\ boot.pc # "exit" /\ NextPrune)

SpecMain == InitMain /\ [][NextMain]_vars

\* C24: main starts both background schedulers: once the operator serves,
\* the pruner has been started and DNSSyncWorker has begun its scans.
C24_BothSchedulersStarted ==
    boot.pc = "serving" => (boot.pruner /\ scan.scans > 0)

(***************************************************************************)
(* The deployment polls of the deploy command: waitForDeployment for a new *)
(* site, waitForRedeployment for an existing one.  One step per round of   *)
(* the select loop; t is the time since the poll began, in seconds.  A     *)
(* poll is "ok" when it returned the site URL, "failed" when it returned   *)
(* the error of a failed deployment, "timeout" when its timeout fired.     *)
(***************************************************************************)
InProgress == {"PENDING_BUILD", "BUILDING", "PENDING_DEPLOY", "DEPLOYING", "SUPERSEDED"}

\* what a round observes: a phase, or "err" when getSiteStatus fails
Observations == InProgress \cup {"ACTIVE", "ERROR", "FAILED", "CANCELED", "err"}

\* time.After of the poll
TimeoutOf(kind) == IF kind = "new" THEN DeployTimeoutSeconds ELSE RedeployTimeoutSeconds

\* the deploy command enters a poll
waitStart(kind) ==
    /\ wait.pc \in {"idle", "ok", "failed", "timeout"}
    /\ wait' = [NoWait EXCEPT !.pc = "select", !.kind = kind]
    /\ UNCHANGED otherThanWait

\* case <-timeout: the timer fires before the next tick, or with it
waitTimeout ==
    /\ wait.pc = "select"
    /\ wait.t + TickerSeconds >= TimeoutOf(wait.kind)
    /\ wait' = [wait EXCEPT !.pc = "timeout", !.t = TimeoutOf(wait.kind)]
    /\ UNCHANGED otherThanWait

\* a waitForDeployment that gives up when the status cannot be fetched
waitForDeploymentFailFast(observed) ==
    /\ wait.pc = "select" /\ wait.kind = "new"
    /\ wait.t + TickerSeconds <= TimeoutOf(wait.kind)
    /\ wait' = [wait EXCEPT
          !.t = @ + TickerSeconds,
          !.status = observed,
          !.pc = CASE observed = "ACTIVE" -> "ok"
                   [] observed \in {"ERROR", "FAILED", "CANCELED", "err"} -> "failed"
                   [] OTHER -> "select"]
    /\ UNCHANGED otherThanWait

\* case <-ticker.C of waitForDeployment
waitForDeployment(observed) ==
    /\ wait.pc = "select" /\ wait.kind = "new"
    /\ wait.t + TickerSeconds <= TimeoutOf(wait.kind)
    /\ wait' = [wait EXCEPT
          !.t = @ + TickerSeconds,
          !.status = observed,
          !.pc = CASE observed = "err" -> "select"
                   [] observed = "ACTIVE" -> "ok"
                   [] observed \in {"ERROR", "FAILED"} -> "failed"
                   [] observed = "CANCELED" -> "failed"
                   [] OTHER -> "select"]
    /\ UNCHANGED otherThanWait

\* a waitForRedeployment that takes any ACTIVE for the end of the deployment
waitForRedeploymentAnyActive(observed) ==
    /\ wait.pc = "select" /\ wait.kind = "redeploy"
    /\ wait.t + TickerSeconds <= TimeoutOf(wait.kind)
    /\ wait' = [wait EXCEPT
          !.t = @ + TickerSeconds,
          !.status = observed,
          !.sawProgress = @ \/ observed \in InProgress,
          !.firstActive = IF @ = -1 /\ observed = "ACTIVE"
                          THEN wait.t + TickerSeconds ELSE @,
          !.sawDeploying = @ \/ observed \in InProgress,
          !.pc = CASE observed = "ACTIVE" -> "ok"
                   [] observed \in {"ERROR", "FAILED"} -> "failed"
                   [] OTHER -> "select"]
    /\ UNCHANGED otherThanWait

\* case <-ticker.C of waitForRedeployment
waitForRedeployment(observed) ==
    /\ wait.pc = "select" /\ wait.kind = "redeploy"
    /\ wait.t + TickerSeconds <= TimeoutOf(wait.kind)
    /\ LET tnext == wait.t + TickerSeconds
           saw == wait.sawDeploying \/ observed \in InProgress
           first == IF observed \in InProgress THEN -1 ELSE wait.firstActiveTime
       IN  wait' = [wait EXCEPT
              !.t = tnext,
              !.status = observed,
              !.sawProgress = @ \/ observed \in InProgress,
              !.firstActive = IF @ = -1 /\ observed = "ACTIVE" THEN tnext ELSE @,
              !.sawDeploying = IF observed = "err" THEN @ ELSE saw,
              !.firstActiveTime =
                  IF observed = "ACTIVE" /\ ~saw /\ first = -1 THEN tnext ELSE first,
              !.pc = CASE observed = "err" -> "select"
                       [] observed = "ACTIVE" /\ saw -> "ok"
                       [] observed = "ACTIVE" /\ ~saw /\ first # -1
                          /\ tnext - first > ActiveGraceSeconds -> "ok"
                       [] observed \in {"ERROR", "FAILED"} -> "failed"
                       [] OTHER -> "select"]
    /\ UNCHANGED otherThanWait

\* the deploy command before its poll
InitWait == CredsAtRest /\ PrunerAtRest /\ ProxyAtRest /\ DnsAtRest /\ OpsAtRest

NextWait ==
    \/ \E kind \in {"new", "redeploy"} : waitStart(kind)
    \/ waitTimeout
    \/ \E observed \in Observations : waitForDeployment(observed)
    \/ \E observed \in Observations : waitForRedeployment(observed)

SpecWait == InitWait /\ [][NextWait]_vars

\* the ticker and the timer fire, and getSiteStatus returns
SpecWaitLive == SpecWait /\ WF_vars(NextWait)

C28_EndsAtTerminalPhase ==
    wait.status \in {"ERROR", "FAILED", "CANCELED"} => wait.pc = "failed"

\* C29: the redeployment poll reports no success on a stale ACTIVE. It has
\* returned the site URL only at an ACTIVE observed after a phase in
\* progress was observed in the poll, or observed more than 30 seconds
\* after the first ACTIVE of a poll that observed no phase in progress; an
\* ACTIVE that is neither leaves it polling, until its 5-minute timeout at
\* the latest.
C29_NoStaleActive ==
    wait.kind = "redeploy" =>
        LET fresh == wait.sawProgress
            settled == /\ ~wait.sawProgress
                       /\ wait.firstActive # -1
                       /\ wait.t - wait.firstActive > 30
        IN  /\ wait.pc = "ok" => (wait.status = "ACTIVE" /\ (fresh \/ settled))
            /\ (wait.pc # "timeout" /\ wait.status = "ACTIVE") =>
                  IF fresh \/ settled THEN wait.pc = "ok" ELSE wait.pc = "select"
            /\ wait.t <= 300
            /\ wait.pc = "timeout" => wait.t = 300

\* C29 witness: a redeployment poll that observed no phase in progress
\* returned the site URL 33 seconds after its first ACTIVE
C29_Witness ==
    /\ wait.kind = "redeploy" /\ wait.pc = "ok"
    /\ ~wait.sawProgress
    /\ wait.firstActive = 3
    /\ wait.t = 36

(***************************************************************************)
(* Pruner.Start: the goroutine of the first prune (time.Sleep of 30 s,     *)
(* then Prune) and the goroutine of the daily ticker (Prune at every tick  *)
(* it receives).  Time is in seconds since Start and moves from event to   *)
(* event.  A Prune lasts as long as its HTTP calls: their number grows     *)
(* with the registry, and each returns within the Timeout of the client.   *)
(***************************************************************************)

StartupDelaySeconds == 30

TickerPeriodSeconds == 86400

\* Timeout of the http.Client of the pruner
CallTimeoutSeconds == 30

\* how long one call of the registry API takes
CallSeconds == {1, 15, CallTimeoutSeconds}

\* how many calls a Prune makes: listRepositories alone, a small registry, a
\* registry of some thousand tags
CycleCalls == {1, 7, 3000}

\* how long a Prune can last
PruneSeconds == {n * d : n \in CycleCalls, d \in CallSeconds}

\* the times of the events that are due: the end of the sleep, the next
\* tick, the return of a running Prune
Due ==
    (IF sched.startup.pc = "sleep" THEN {StartupDelaySeconds} ELSE {})
    \cup (IF sched.startup.pc = "prune" THEN {sched.startup.until} ELSE {})
    \cup (IF sched.ticker.pc = "prune" THEN {sched.ticker.until} ELSE {})
    \cup (IF sched.ticks < MaxTicks THEN {sched.nextTick} ELSE {})

\* t is the time of the next event
Earliest(t) == \A u \in Due : t <= u

\* Pruner.Start returns with both goroutines running and the ticker armed
InitStart ==
    /\ CredsAtRest
    /\ ProxyAtRest
    /\ DnsAtRest
    /\ PrunerAtRest
    /\ site = NoSite /\ scan = NoScan /\ wait = NoWait /\ boot = NoBoot
    /\ copy = NoCopy
    /\ sched = [NoSched EXCEPT !.nextTick = TickerPeriodSeconds]

\* the first goroutine wakes from time.Sleep and calls Prune, which lasts d
startupPrune(d) ==
    /\ sched.startup.pc = "sleep"
    /\ Earliest(StartupDelaySeconds)
    /\ sched' = [sched EXCEPT !.now = StartupDelaySeconds,
                              !.startup = [pc |-> "prune",
                                           until |-> StartupDelaySeconds + d],
                              !.runs = @ + 1]
    /\ UNCHANGED otherThanSched

\* Prune of the first goroutine returns and the goroutine ends
startupReturn ==
    /\ sched.startup.pc = "prune"
    /\ Earliest(sched.startup.until)
    /\ sched' = [sched EXCEPT !.now = sched.startup.until,
                              !.startup = [pc |-> "done", until |-> 0]]
    /\ UNCHANGED otherThanSched

\* the ticker fires: the goroutine of the loop receives the tick and calls
\* Prune, which lasts d; when it is still in Prune the tick stays in
\* ticker.C, whose buffer holds one tick, or is dropped
tick(d) ==
    /\ sched.ticks < MaxTicks
    /\ Earliest(sched.nextTick)
    /\ sched' = [sched EXCEPT
          !.now = sched.nextTick,
          !.ticks = @ + 1,
          !.nextTick = @ + TickerPeriodSeconds,
          !.ticker = IF sched.ticker.pc = "wait"
                       THEN [pc |-> "prune", until |-> sched.nextTick + d]
                       ELSE @,
          !.buffered = IF sched.ticker.pc = "wait" THEN @ ELSE TRUE,
          !.runs = IF sched.ticker.pc = "wait" THEN @ + 1 ELSE @]
    /\ UNCHANGED otherThanSched

\* Prune of the loop returns: the loop takes the tick that waits in
\* ticker.C and calls Prune again, or blocks on ticker.C
tickerReturn(d) ==
    /\ sched.ticker.pc = "prune"
    /\ Earliest(sched.ticker.until)
    /\ sched' = [sched EXCEPT
          !.now = sched.ticker.until,
          !.ticker = IF sched.buffered
                       THEN [pc |-> "prune", until |-> sched.ticker.until + d]
                       ELSE [pc |-> "wait", until |-> 0],
          !.buffered = FALSE,
          !.runs = IF sched.buffered THEN @ + 1 ELSE @]
    /\ UNCHANGED otherThanSched

NextStart ==
    \/ \E d \in PruneSeconds : startupPrune(d)
    \/ startupReturn
    \/ \E d \in PruneSeconds : tick(d)
    \/ \E d \in PruneSeconds : tickerReturn(d)

SpecStart == InitStart /\ [][NextStart]_vars

\* C32: prune cycles never overlap. The first goroutine and the goroutine
\* of the ticker are never in Prune at the same moment.
C32_NoOverlap == ~(sched.startup.pc = "prune" /\ sched.ticker.pc = "prune")

(***************************************************************************)
(* RegistryProxy.ServeHTTP, the copy of the response body.  The            *)
(* ResponseWriter of the net/http server is an http.Flusher, so the loop   *)
(* with the 32 KB buffer runs.  Bodies are sequences of bytes and the      *)
(* buffer holds ChunkSize of them.                                         *)
(***************************************************************************)

\* what every step of the copy leaves alone
otherThanCopy == <<credVars, pruneVars, proxyVars, dnsVars, site, scan, wait, boot, sched>>

\* len(buf), scaled down
ChunkSize == 2

\* the upstream bodies of the model
Bodies == UNION {[1..n -> {"a", "b"}] : n \in 0..MaxBody}

\* the status was written: the copy of resp.Body begins
copyStart(body) ==
    /\ copy.pc \in {"idle", "done"}
    /\ copy' = [NoCopy EXCEPT !.pc = "read", !.body = body]
    /\ UNCHANGED otherThanCopy

\* what ServeHTTP does after a Read that returned n bytes and readErr
AfterRead(n, readErr) ==
    [copy EXCEPT
        !.reads = @ + 1,
        !.nread = @ + n,
        !.held = SubSeq(copy.body, copy.nread + 1, copy.nread + n),
        !.pc = IF n > 0 THEN IF readErr THEN "writeLast" ELSE "write"
               ELSE IF readErr THEN "done" ELSE "read",
        !.closed = n = 0 /\ readErr]

\* resp.Body.Read(buf): some bytes, or none and an error: io.EOF at the end
\* of the body, an error of the upstream connection before it; the error
\* can also come with the last bytes
copyRead(n, readErr) ==
    /\ copy.pc = "read"
    /\ n <= ChunkSize
    /\ copy.nread + n <= Len(copy.body)
    /\ n = 0 => readErr
    /\ copy' = AfterRead(n, readErr)
    /\ UNCHANGED otherThanCopy

\* a loop that writes without flushing
AfterWriteUnflushed(written, writeErr) ==
    [copy EXCEPT
        !.writes = @ + 1,
        !.client = @ \o SubSeq(copy.held, 1, written),
        !.held = <<>>,
        !.failed = writeErr,
        !.pc = IF writeErr \/ copy.pc = "writeLast" THEN "done" ELSE "read",
        !.closed = writeErr \/ copy.pc = "writeLast"]

\* what ServeHTTP does after w.Write(buf[:n]) returned written and
\* writeErr: it returns on the error, else it flushes and breaks if the
\* Read had returned an error; resp.Body.Close is deferred
AfterWrite(written, writeErr) ==
    [copy EXCEPT
        !.writes = @ + 1,
        !.client = @ \o SubSeq(copy.held, 1, written),
        !.held = <<>>,
        !.flushed = IF writeErr THEN @ ELSE Len(copy.client) + written,
        !.failed = writeErr,
        !.pc = IF writeErr \/ copy.pc = "writeLast" THEN "done" ELSE "read",
        !.closed = writeErr \/ copy.pc = "writeLast"]

\* w.Write(buf[:n]) and flusher.Flush(): a Write that fails has written
\* fewer bytes than it was given
copyWrite(written, writeErr) ==
    /\ copy.pc \in {"write", "writeLast"}
    /\ written <= Len(copy.held)
    /\ writeErr <=> written < Len(copy.held)
    /\ copy' = AfterWrite(written, writeErr)
    /\ UNCHANGED otherThanCopy

InitCopy == CredsAtRest /\ PrunerAtRest /\ ProxyAtRest /\ DnsAtRest /\ OpsAtRest

NextCopy ==
    \/ \E body \in Bodies : copyStart(body)
    \/ \E n \in 0..ChunkSize, readErr \in BOOLEAN : copyRead(n, readErr)
    \/ \E written \in 0..ChunkSize, writeErr \in BOOLEAN : copyWrite(written, writeErr)

SpecCopy == InitCopy /\ [][NextCopy]_vars

\* C39: response streaming and cancellation. The bytes the client has
\* received are always a prefix of the upstream body; before every Read all
\* bytes read so far have been written and flushed, in order; the proxy
\* never holds more than one chunk; and after a Write that failed the loop
\* has ended with no Read made after it and resp.Body closed.
C39_Streaming ==
    /\ Len(copy.client) <= Len(copy.body)
    /\ copy.client = SubSeq(copy.body, 1, Len(copy.client))
    /\ copy.nread - Len(copy.client) <= ChunkSize
    /\ Len(copy.held) <= ChunkSize
    /\ copy.pc = "read" =>
          /\ Len(copy.client) = copy.nread
          /\ copy.flushed = Len(copy.client)
    /\ (copy.pc = "done" /\ ~copy.failed) => copy.flushed = Len(copy.client)
    /\ copy.failed =>
          /\ copy.pc = "done"
          /\ copy.closed
          /\ copy.reads = copy.writes
    /\ copy.pc = "done" => copy.closed

\* C39 witness: a body of three bytes, of which a first chunk was written
\* and flushed and the second Write failed after one byte more
C39_Witness ==
    /\ Len(copy.body) = MaxBody
    /\ copy.failed
    /\ copy.reads = 2
    /\ copy.flushed = 1
    /\ Len(copy.client) = 2

====
